---- MODULE Spec2Model ----
(***************************************************************************)
(* Pipes and Filters (src/src/patterns/pipes_and_filters/__init__.py).     *)
(*                                                                         *)
(* Python objects are modelled as a heap: `msgs` holds the AgentMessage    *)
(* objects and `dicts` the dict objects; a message refers to its payload   *)
(* and metadata dicts by index, so that pydantic's shallow model_copy()    *)
(* (a new message sharing both dicts) and in-place dict mutation are       *)
(* modelled as the code performs them.                                     *)
(*                                                                         *)
(* asyncio is cooperative: a task keeps the event loop until it awaits     *)
(* something pending.  `running` is the task that holds the loop (0 when   *)
(* the loop is free).  The built-in filters never suspend; a user-defined  *)
(* FilterAgent subclass may await inside its filter() body.                *)
(***************************************************************************)
EXTENDS Integers, Sequences, FiniteSets, TLC

\* ------------------------------------------------------------------ bounds
MaxFilters == 2      \* longest filter list given to Pipeline(...)
MaxBatch == 2        \* most messages given to process_batch
MaxAdds == 1         \* most add_filter calls

\* ------------------------------------------------------------- value model
\* Python's None as a message reference (heap references start at 1)
None == 0

\* the result asyncio.gather(return_exceptions=True) holds for a task that
\* raised: an Exception instance, which is no message reference
Raised == -1

\* a filter attribute that the subclass does not have, or that holds None
NoValue == "none"

EmptyDict == [k \in {} |-> "a"]

\* str.upper on the two sample strings
Upper(v) == IF v = "a" THEN "A" ELSE v

\* d[k] = v
DictSet(d, k, v) == [x \in (DOMAIN d) \cup {k} |-> IF x = k THEN v ELSE d[x]]

\* d.update(e)
DictUpdate(d, e) ==
  [x \in (DOMAIN d) \cup (DOMAIN e) |-> IF x \in DOMAIN e THEN e[x] ELSE d[x]]

\* payloads the caller builds its messages with
PayloadPool ==
  { [name |-> "a"],
    [name |-> "a", email |-> "a"] }

\* ------------------------------------------------------------ filter model
\* One record shape for every FilterAgent subclass; a field that a subclass
\* does not have holds NoValue.
Filter(kind, pt, req, func, data, body, susp) ==
  [kind |-> kind, pass_through |-> pt, required_fields |-> req,
   transform_func |-> func, enrichment_data |-> data, body |-> body,
   suspends |-> susp]

\* ValidationFilter(config, required_fields): pass_through is always False
ValidationFilter(req) ==
  Filter("Validation", FALSE, req, NoValue, EmptyDict, NoValue, FALSE)

\* TransformFilter(config, transform_func): pass_through keeps its default True
TransformFilter(func) ==
  Filter("Transform", TRUE, {}, func, EmptyDict, NoValue, FALSE)

\* EnrichmentFilter(config, enrichment_data): pass_through default True
EnrichmentFilter(data) ==
  Filter("Enrichment", TRUE, {}, NoValue, data, NoValue, FALSE)

\* a user subclass of FilterAgent with its own filter() body
CustomFilter(body, pt, susp) ==
  Filter("Custom", pt, {}, NoValue, EmptyDict, body, susp)

\* transform functions:
\*   "uppercase_email": lambda p: {**p, "email": p["email"].upper()}  (pure)
\*   "stamp_inplace"  : def f(p): p["enriched"] = "A"
\*                                p["email"] = p["email"].upper(); return p
\* both raise KeyError on a payload without "email"
TransformFuncs == {NoValue, "uppercase_email", "stamp_inplace"}

\* custom filter() bodies:
\*   "uppercase": m = message.model_copy()
\*                await ...
\*                if "name" in m.payload: m.payload["name"] = ....upper()
\*                return m
\*   "block"    : return None
\*   "fail"     : raise
CustomBodies == {"uppercase", "block", "fail"}

\* the filters a pipeline is built from
FilterPool ==
  { ValidationFilter(S) : S \in {{}, {"email"}, {"name", "email"}} }
  \cup { TransformFilter(f) : f \in {"uppercase_email", "stamp_inplace"} }
  \cup { EnrichmentFilter([enriched |-> "A"]) }
  \cup { CustomFilter("fail", pt, FALSE) : pt \in BOOLEAN }
  \cup { CustomFilter("uppercase", TRUE, TRUE) }

\* filters handed to add_filter
AddPool ==
  { EnrichmentFilter([enriched |-> "A"]), ValidationFilter({"email"}) }

\* ------------------------------------------------------------------- state
VARIABLES
  filters,    \* Pipeline.filters
  msgs,       \* heap of AgentMessage objects: [id, payload, metadata]
  dicts,      \* heap of dict objects
  run,        \* one Pipeline.process call per batch message
  batch,      \* the process_batch call: [pc, processed]
  running,    \* the task holding the event loop, 0 when free
  adds,       \* add_filter calls made
  orig,       \* each input's payload and metadata when the call was made
  trace       \* per run, the filter invocations and returns in order

pipeVars == <<filters, msgs, dicts, run, batch, running, adds, orig, trace>>

\* the cognitive pipelines of pattern-2-pipes-filters
VARIABLES
  pfilters,   \* ParallelPipeline.filters: CognitiveFilter objects [name, thread_id]
  pdata,      \* heap of PipelineData objects: [content, metadata, transformations]
  pdicts,     \* heap of metadata dicts
  plists,     \* heap of transformation lists
  ptask,      \* one filter.process(data_copy) coroutine per filter
  pexec,      \* the execute call: [pc, results, orig]
  pclock      \* datetime.utcnow(), in ticks

parVars == <<pfilters, pdata, pdicts, plists, ptask, pexec, pclock>>

\* the command handlers and the command bus
VARIABLES
  command_handlers,  \* per CommandHandler, its _command_handlers dict
  bus_handlers,      \* CommandBus._handlers, in insertion order
  calls,             \* the dispatch / execute_command calls made, in order
  ops,               \* operations started
  loop_time,         \* the event loop's clock, in milliseconds
  timers             \* per call made through a CommandInvoker: [deadline, finish]

cmdVars == <<command_handlers, bus_handlers, calls, ops, loop_time, timers>>

\* the publish/subscribe broker of services/pubsub
VARIABLES
  subscribers,   \* PubSubBroker.subscribers: AgentSubscriber objects
  hub,           \* the events the Event Hub holds and has not delivered yet
  consume,       \* the _process_event call in flight: [pc, message, tasks]
  handled,       \* every handle_message call made, in order
  published,     \* every publish call made, in order
  consumed,      \* every _process_event call that is over, in order
  pub_ops        \* register / publish / direct handle_message calls made

pubVars == <<subscribers, hub, consume, handled, published, consumed, pub_ops>>

\* the asynchronous command pipeline of services/command_messages
VARIABLES
  processors,     \* AsyncCommandPipeline.processors: CommandProcessor objects
  command_store,  \* AsyncCommandPipeline.command_store: command_id -> CommandMessage
  command_hub,    \* the events the Event Hub holds and has not delivered yet
  processed,      \* every _process_event call made, in order
  submitted       \* every submit_command call made, in order

acpVars == <<processors, command_store, command_hub, processed, submitted>>

\* the Service Bus agents of patterns/message_queue and patterns/pubsub
VARIABLES
  agent_kind,     \* "queue" for a MessageQueueAgent, "subscriber" for a SubscriberAgent
  agent_running,  \* BaseAgent._running
  receiver,       \* self._receiver: "none", "open" or "closed"
  listening,      \* the start_processing / start_listening call: [pc, tasks]
  settlements,    \* the settle calls made on the messages of the last batch, in order
  receives,       \* every receive_messages call made, in order
  stops           \* every stop() call made, in order

sbVars == <<agent_kind, agent_running, receiver, listening, settlements, receives, stops>>

\* EventHubAdapter.receive_events with its on_event_batch
VARIABLES
  rx_batch,     \* the events of the batch the consumer hands to on_event_batch
  rx,           \* the on_event_batch call: [pc, pos]
  callbacks,    \* every on_event call made, in order
  checkpoints   \* every update_checkpoint call made, in order

rxVars == <<rx_batch, rx, callbacks, checkpoints>>

\* the API services of services/command_messages and services/pubsub
VARIABLES
  api_service,    \* "command_messages" or "pubsub"
  api_state,      \* "down", "up", or how shutdown_event ended
  api_task,       \* the global processing_task / consuming_task
  api_loops,      \* the background consume loops: "added" or "running"
  api_adapter,    \* the Event Hub adapter: "none", "open" or "closed"
  api_responses   \* the responses given so far, in order

apiVars == <<api_service, api_state, api_task, api_loops, api_adapter, api_responses>>

vars == <<pipeVars, parVars, cmdVars, pubVars, acpVars, sbVars, rxVars, apiVars>>

notPipeVars == <<parVars, cmdVars, pubVars, acpVars, sbVars, rxVars, apiVars>>
notParVars == <<pipeVars, cmdVars, pubVars, acpVars, sbVars, rxVars, apiVars>>
notCmdVars == <<pipeVars, parVars, pubVars, acpVars, sbVars, rxVars, apiVars>>
notPubVars == <<pipeVars, parVars, cmdVars, acpVars, sbVars, rxVars, apiVars>>
notAcpVars == <<pipeVars, parVars, cmdVars, pubVars, sbVars, rxVars, apiVars>>
notSbVars == <<pipeVars, parVars, cmdVars, pubVars, acpVars, rxVars, apiVars>>
notRxVars == <<pipeVars, parVars, cmdVars, pubVars, acpVars, sbVars, apiVars>>
notApiVars == <<pipeVars, parVars, cmdVars, pubVars, acpVars, sbVars, rxVars>>

\* the parts of the program a specification leaves unused
PipeIdle ==
  /\ filters = <<>> /\ msgs = <<>> /\ dicts = <<>> /\ run = <<>>
  /\ batch = [pc |-> "idle", processed |-> <<>>]
  /\ running = 0 /\ adds = 0 /\ orig = <<>> /\ trace = <<>>

ParIdle ==
  /\ pfilters = <<>> /\ pdata = <<>> /\ pdicts = <<>> /\ plists = <<>>
  /\ ptask = <<>> /\ pexec = [pc |-> "idle"] /\ pclock = 0

CmdIdle ==
  /\ command_handlers = <<>> /\ bus_handlers = <<>> /\ calls = <<>> /\ ops = 0
  /\ loop_time = 0 /\ timers = <<>>

PubIdle ==
  /\ subscribers = <<>> /\ hub = <<>> /\ consume = [pc |-> "idle"]
  /\ handled = <<>> /\ published = <<>> /\ consumed = <<>> /\ pub_ops = 0

AcpIdle ==
  /\ processors = <<>> /\ command_store = EmptyDict /\ command_hub = <<>>
  /\ processed = <<>> /\ submitted = <<>>

SbIdle ==
  /\ agent_kind = "queue" /\ agent_running = FALSE /\ receiver = "none"
  /\ listening = [pc |-> "idle"] /\ settlements = <<>> /\ receives = <<>> /\ stops = <<>>

RxIdle ==
  /\ rx_batch = <<>> /\ rx = [pc |-> "idle", pos |-> 0]
  /\ callbacks = <<>> /\ checkpoints = <<>>

ApiIdle ==
  /\ api_service = "pubsub" /\ api_state = "down" /\ api_task = [py |-> "None"]
  /\ api_loops = <<>> /\ api_adapter = "none" /\ api_responses = <<>>

Runs == DOMAIN run

\* the payload / metadata dict a message refers to, in heap d
PayloadOf(ms, ds, m) == ds[ms[m].payload]
MetadataOf(ms, ds, m) == ds[ms[m].metadata]

\* the payload and metadata contents of message m (None for an absent message)
Snapshot(ms, ds, m) ==
  IF m \in {None, Raised} THEN [absent |-> TRUE]
  ELSE [payload |-> PayloadOf(ms, ds, m), metadata |-> MetadataOf(ms, ds, m)]

\* ---------------------------------------------------------- filter bodies
\* A heap h is [msgs, dicts].  Every body returns [ret, raised, caught, h]:
\* the message it returns (None for absent), whether it raised, whether it
\* caught an error of its own, and the heap after its side effects.

\* a copy built as a new message, which gets an id of its own
ModelCopyFreshId(h, m) ==
  [h |-> [msgs |-> Append(h.msgs, [h.msgs[m] EXCEPT !.id = Len(h.msgs) + 1]),
          dicts |-> h.dicts],
   ref |-> Len(h.msgs) + 1]

\* pydantic model_copy(): a new message object with the same field values,
\* so the copy shares the original's payload and metadata dicts
ModelCopy(h, m) ==
  [h |-> [msgs |-> Append(h.msgs, h.msgs[m]), dicts |-> h.dicts],
   ref |-> Len(h.msgs) + 1]

\* self._transform_func(message.payload): the function receives the payload
\* dict itself.  Returns [raised, dicts, ret] with ret the dict it returned.
ApplyTransform(func, ds, p) ==
  IF func = "uppercase_email"
  THEN IF "email" \in DOMAIN ds[p]
       THEN [raised |-> FALSE,
             dicts |-> Append(ds, DictSet(ds[p], "email", Upper(ds[p]["email"]))),
             ret |-> Len(ds) + 1]
       ELSE [raised |-> TRUE, dicts |-> ds, ret |-> 0]
  ELSE \* "stamp_inplace"
       LET stamped == [ds EXCEPT ![p] = DictSet(ds[p], "enriched", "A")]
       IN IF "email" \in DOMAIN ds[p]
          THEN [raised |-> FALSE,
                dicts |-> [stamped EXCEPT
                             ![p] = DictSet(stamped[p], "email",
                                            Upper(stamped[p]["email"]))],
                ret |-> p]
          ELSE [raised |-> TRUE, dicts |-> stamped, ret |-> 0]

\* a validation that rejects only when every required field is missing
ValidationBodyAllMissing(f, h, m) ==
  IF /\ f.required_fields # {}
     /\ \A field \in f.required_fields : field \notin DOMAIN PayloadOf(h.msgs, h.dicts, m)
  THEN [ret |-> None, raised |-> FALSE, caught |-> FALSE, h |-> h]
  ELSE [ret |-> m, raised |-> FALSE, caught |-> FALSE, h |-> h]

\* ValidationFilter.filter
ValidationBody(f, h, m) ==
  IF \E field \in f.required_fields : field \notin DOMAIN PayloadOf(h.msgs, h.dicts, m)
  THEN [ret |-> None, raised |-> FALSE, caught |-> FALSE, h |-> h]
  ELSE [ret |-> m, raised |-> FALSE, caught |-> FALSE, h |-> h]

\* TransformFilter.filter: an error of the transform function is caught
\* here and turned into a None return
TransformBody(f, h, m) ==
  IF f.transform_func = NoValue
  THEN [ret |-> m, raised |-> FALSE, caught |-> FALSE, h |-> h]
  ELSE LET t == ApplyTransform(f.transform_func, h.dicts, h.msgs[m].payload)
           c == ModelCopy([msgs |-> h.msgs, dicts |-> t.dicts], m)
       IN IF t.raised
          THEN [ret |-> None, raised |-> FALSE, caught |-> TRUE,
                h |-> [msgs |-> h.msgs, dicts |-> t.dicts]]
          ELSE [ret |-> c.ref, raised |-> FALSE, caught |-> FALSE,
                h |-> [msgs |-> [c.h.msgs EXCEPT ![c.ref].payload = t.ret],
                       dicts |-> c.h.dicts]]

\* EnrichmentFilter.filter: model_copy() then payload.update(enrichment_data)
EnrichmentBody(f, h, m) ==
  LET c == ModelCopy(h, m)
      p == c.h.msgs[c.ref].payload
  IN [ret |-> c.ref, raised |-> FALSE, caught |-> FALSE,
      h |-> [msgs |-> c.h.msgs,
             dicts |-> [c.h.dicts EXCEPT ![p] = DictUpdate(c.h.dicts[p], f.enrichment_data)]]]

\* filter() of a user subclass
CustomBody(f, h, m) ==
  CASE f.body = "block" -> [ret |-> None, raised |-> FALSE, caught |-> FALSE, h |-> h]
    [] f.body = "fail" -> [ret |-> None, raised |-> TRUE, caught |-> FALSE, h |-> h]
    [] OTHER -> \* "uppercase"
       LET c == ModelCopy(h, m)
           p == c.h.msgs[c.ref].payload
       IN [ret |-> c.ref, raised |-> FALSE, caught |-> FALSE,
           h |-> [msgs |-> c.h.msgs,
                  dicts |-> IF "name" \in DOMAIN c.h.dicts[p]
                            THEN [c.h.dicts EXCEPT
                                    ![p] = DictSet(c.h.dicts[p], "name",
                                                   Upper(c.h.dicts[p]["name"]))]
                            ELSE c.h.dicts]]

\* self.filter(message), dispatched on the subclass
FilterBody(f, h, m) ==
  CASE f.kind = "Validation" -> ValidationBody(f, h, m)
    [] f.kind = "Transform" -> TransformBody(f, h, m)
    [] f.kind = "Enrichment" -> EnrichmentBody(f, h, m)
    [] OTHER -> CustomBody(f, h, m)

\* a handle_error that logs and then re-raises the error
HandleErrorReraise(f, m) == "raised"

\* BaseAgent.handle_error: logs the error and the message, and returns
HandleError(f, m) == "logged"

\* a process_message whose except branch returns None whatever pass_through
ProcessMessageErrorBlocks(f, h, m) ==
  LET b == FilterBody(f, h, m)
  IN IF b.raised
     THEN [out |-> None, how |-> "error", caught |-> b.caught, h |-> b.h]
     ELSE IF b.ret # None
     THEN [out |-> b.ret, how |-> "processed", caught |-> b.caught, h |-> b.h]
     ELSE IF f.pass_through
     THEN [out |-> m, how |-> "passed", caught |-> b.caught, h |-> b.h]
     ELSE [out |-> None, how |-> "blocked", caught |-> b.caught, h |-> b.h]

\* FilterAgent.process_message: [out, how, caught, h].  `how` records the
\* branch taken: "processed", "passed", "blocked" or "error"; "raised" when
\* an exception leaves process_message (out is then Raised).
ProcessMessage(f, h, m) ==
  LET b == FilterBody(f, h, m)
  IN IF b.raised
     THEN IF HandleError(f, m) = "logged"
          THEN [out |-> IF ~f.pass_through THEN None ELSE m, how |-> "error",
                caught |-> b.caught, h |-> b.h]
          ELSE [out |-> Raised, how |-> "raised", caught |-> b.caught, h |-> b.h]
     ELSE IF b.ret # None
     THEN [out |-> b.ret, how |-> "processed", caught |-> b.caught, h |-> b.h]
     ELSE IF f.pass_through
     THEN [out |-> m, how |-> "passed", caught |-> b.caught, h |-> b.h]
     ELSE [out |-> None, how |-> "blocked", caught |-> b.caught, h |-> b.h]

\* ------------------------------------------------------------------- Init
\* Pipeline(filters) has been constructed and the caller has built the
\* messages of one batch, each with its own payload and metadata dict
\* (message r refers to dicts 2r-1 and 2r).
FilterLists == UNION { [1..n -> FilterPool] : n \in 0..MaxFilters }

Init ==
  /\ filters \in FilterLists
  /\ \E n \in 1..MaxBatch : \E pl \in [1..n -> PayloadPool] :
       /\ msgs = [r \in 1..n |-> [id |-> r, payload |-> 2 * r - 1, metadata |-> 2 * r]]
       /\ dicts = [d \in 1..(2 * n) |-> IF d % 2 = 1 THEN pl[(d + 1) \div 2] ELSE EmptyDict]
       /\ run = [r \in 1..n |-> [pc |-> "pending", i |-> 0, cur |-> None,
                                  input |-> r, result |-> None, lenAtStart |-> 0]]
       /\ orig = [r \in 1..n |-> [payload |-> pl[r], metadata |-> EmptyDict]]
       /\ trace = [r \in 1..n |-> <<>>]
  /\ batch = [pc |-> "idle", processed |-> <<>>]
  /\ running = 0
  /\ adds = 0
  /\ ParIdle
  /\ CmdIdle
  /\ PubIdle
  /\ AcpIdle
  /\ SbIdle
  /\ RxIdle
  /\ ApiIdle

\* ---------------------------------------------------------------- actions
\* process_batch, up to the await of asyncio.gather: one task per message
CallProcessBatch ==
  /\ batch.pc = "idle"
  /\ running = 0
  /\ batch' = [batch EXCEPT !.pc = "gather"]
  /\ UNCHANGED <<filters, msgs, dicts, run, running, adds, orig, trace>>
  /\ UNCHANGED notPipeVars

\* Pipeline.process entry: current_message = message.  The event loop
\* starts the gathered tasks in the order they were created.
StartProcess(r) ==
  /\ batch.pc = "gather"
  /\ running = 0
  /\ run[r].pc = "pending"
  /\ \A q \in Runs : q < r => run[q].pc # "pending"
  /\ run' = [run EXCEPT ![r].pc = "loop", ![r].cur = run[r].input,
                        ![r].lenAtStart = Len(filters)]
  /\ running' = r
  /\ UNCHANGED <<filters, msgs, dicts, batch, adds, orig, trace>>
  /\ UNCHANGED notPipeVars

\* current_message kept on the pipeline object instead of in a local: the
\* process call started last overwrites it for the calls still in flight
FilterArgumentShared(r) ==
  LET active == {q \in Runs : run[q].pc \in {"loop", "in_filter"}}
      latest == CHOOSE q \in active : \A o \in active : o <= q
  IN run[latest].cur

\* every filter is handed the message process was called with
FilterArgumentOriginal(r) == run[r].input

\* the message handed to the next filter: current_message
FilterArgument(r) == run[r].cur

\* for i, filter_agent in enumerate(self.filters): the list iterator reads
\* the live list; then filter_agent.process_message(current_message) is
\* called.  A filter whose body awaits gives up the event loop.
InvokeFilter(r) ==
  /\ run[r].pc = "loop"
  /\ running = r
  /\ run[r].i < Len(filters)
  /\ LET idx == run[r].i + 1
         arg == FilterArgument(r)
     IN /\ run' = [run EXCEPT ![r].pc = "in_filter", ![r].i = idx]
        /\ trace' = [trace EXCEPT ![r] = Append(@,
                       [ev |-> "call", idx |-> idx, arg |-> arg,
                        pre |-> Snapshot(msgs, dicts, arg)])]
        /\ running' = IF filters[idx].suspends THEN 0 ELSE r
  /\ UNCHANGED <<filters, msgs, dicts, batch, adds, orig>>
  /\ UNCHANGED notPipeVars

\* a loop that drops the `is None` check and goes on to the next filter
BlockedNever(out) == FALSE

\* if current_message is None: return None
Blocked(out) == out = None

\* process_message runs to its return and the loop body finishes: the
\* result becomes current_message; an absent result ends process.  An
\* exception leaving process_message leaves process too (it has no try).
FilterReturn(r) ==
  /\ run[r].pc = "in_filter"
  /\ running = IF filters[run[r].i].suspends THEN 0 ELSE r
  /\ LET idx == run[r].i
         f == filters[idx]
         arg == trace[r][Len(trace[r])].arg
         pm == ProcessMessage(f, [msgs |-> msgs, dicts |-> dicts], arg)
     IN /\ msgs' = pm.h.msgs
        /\ dicts' = pm.h.dicts
        /\ trace' = [trace EXCEPT ![r] = Append(@,
                       [ev |-> "ret", idx |-> idx, out |-> pm.out, how |-> pm.how,
                        caught |-> pm.caught, filter |-> f,
                        post |-> Snapshot(pm.h.msgs, pm.h.dicts, pm.out)])]
        /\ IF pm.how = "raised"
           THEN /\ run' = [run EXCEPT ![r].pc = "done", ![r].result = Raised]
                /\ running' = 0
           ELSE IF Blocked(pm.out)
           THEN /\ run' = [run EXCEPT ![r].pc = "done", ![r].cur = pm.out,
                                      ![r].result = None]
                /\ running' = 0
           ELSE /\ run' = [run EXCEPT ![r].pc = "loop", ![r].cur = pm.out]
                /\ running' = r
  /\ UNCHANGED <<filters, batch, adds, orig>>
  /\ UNCHANGED notPipeVars

\* a process that returns None when no filter produced anything
ReturnProcessNoneIfUntouched(r) ==
  /\ run[r].pc = "loop"
  /\ running = r
  /\ run[r].i >= Len(filters)
  /\ run' = [run EXCEPT ![r].pc = "done",
                        ![r].result = IF run[r].cur = run[r].input THEN None
                                      ELSE run[r].cur]
  /\ running' = 0
  /\ UNCHANGED <<filters, msgs, dicts, batch, adds, orig, trace>>
  /\ UNCHANGED notPipeVars

\* the loop is exhausted: return current_message
ReturnProcess(r) ==
  /\ run[r].pc = "loop"
  /\ running = r
  /\ run[r].i >= Len(filters)
  /\ run' = [run EXCEPT ![r].pc = "done", ![r].result = run[r].cur]
  /\ running' = 0
  /\ UNCHANGED <<filters, msgs, dicts, batch, adds, orig, trace>>
  /\ UNCHANGED notPipeVars

\* a comprehension without the `is not None` test
ProcessedKeepAbsent(results) == results

\* [result for result in results if result is not None and not
\*  isinstance(result, Exception)]
RECURSIVE Processed(_)
Processed(results) ==
  IF results = <<>> THEN <<>>
  ELSE IF Head(results) # None /\ Head(results) # Raised
       THEN <<Head(results)>> \o Processed(Tail(results))
       ELSE Processed(Tail(results))

\* asyncio.gather completes once every task is done; its results are in
\* the order of the messages
GatherDone ==
  /\ batch.pc = "gather"
  /\ running = 0
  /\ \A r \in Runs : run[r].pc = "done"
  /\ batch' = [pc |-> "done",
               processed |-> Processed([r \in Runs |-> run[r].result])]
  /\ UNCHANGED <<filters, msgs, dicts, run, running, adds, orig, trace>>
  /\ UNCHANGED notPipeVars

\* Pipeline.add_filter, called by another task while the loop is free
AddFilter(f) ==
  /\ running = 0
  /\ adds < MaxAdds
  /\ filters' = Append(filters, f)
  /\ adds' = adds + 1
  /\ UNCHANGED <<msgs, dicts, run, batch, running, orig, trace>>
  /\ UNCHANGED notPipeVars

Next ==
  \/ CallProcessBatch
  \/ \E r \in Runs : StartProcess(r)
  \/ \E r \in Runs : InvokeFilter(r)
  \/ \E r \in Runs : FilterReturn(r)
  \/ \E r \in Runs : ReturnProcess(r)
  \/ GatherDone

Spec == Init /\ [][Next]_vars

\* the same pipeline with add_filter calls racing the batch
NextAddFilter == Next \/ \E f \in AddPool : AddFilter(f)

SpecAddFilter == Init /\ [][NextAddFilter]_vars

\* ============================================ pattern-2: cognitive filters
MaxParFilters == 2   \* longest filter list of a ParallelPipeline

ParFilterNames == {"Sentiment Analysis", "Summarization"}

\* CognitiveFilter(name, ...): thread_id starts as None
CognitiveFilter(name) == [name |-> name, thread_id |-> None]

\* what the agent service does during one process call: the run's status,
\* whether list_messages holds an assistant message, and the client call
\* that raised, if any
ParOutcomes ==
  { [raises |-> NoValue, status |-> "completed", replied |-> TRUE],
    [raises |-> NoValue, status |-> "completed", replied |-> FALSE],
    [raises |-> NoValue, status |-> "failed", replied |-> FALSE],
    [raises |-> "create_thread", status |-> NoValue, replied |-> FALSE],
    [raises |-> "create_and_process_run", status |-> NoValue, replied |-> FALSE] }

\* str(e) of the error a client call raised
ClientError(call) == call \o ": service unavailable"

\* the assistant's text for a prompt built from the content
Reply(name, content) == name \o "(" \o content \o ")"

\* PipelineData.add_transformation's list entry
TransformationEntry(name, now) == name \o " @ " \o ToString(now)

\* the caller's PipelineData: content, metadata and earlier transformations
ParInputs ==
  { [content |-> "raw", metadata |-> md, transformations |-> ts] :
      md \in {EmptyDict, [source |-> "user"]},
      ts \in {<<>>, <<TransformationEntry("Load", 0)>>} }

PSnapshot(ds, dd, ll, d) ==
  [content |-> ds[d].content,
   metadata |-> dd[ds[d].metadata],
   transformations |-> ll[ds[d].transformations]]

\* the same dict object handed on instead of a copy
DictCopyAlias(dd, d) == [heap |-> dd, ref |-> d]

\* dict.copy(): a new dict object with the same items
DictCopy(dd, d) == [heap |-> Append(dd, dd[d]), ref |-> Len(dd) + 1]

\* list.copy(): a new list object with the same elements
ListCopy(ll, l) == [heap |-> Append(ll, ll[l]), ref |-> Len(ll) + 1]

\* PipelineData(content=data.content, metadata=data.metadata.copy(),
\*              transformations=data.transformations.copy())
DataCopy(h, d) ==
  LET md == DictCopy(h.dicts, h.data[d].metadata)
      ts == ListCopy(h.lists, h.data[d].transformations)
  IN [h |-> [data |-> Append(h.data, [content |-> h.data[d].content,
                                      metadata |-> md.ref,
                                      transformations |-> ts.ref]),
             dicts |-> md.heap, lists |-> ts.heap],
      ref |-> Len(h.data) + 1]

\* the loop of ParallelPipeline.execute: one copy and one coroutine per
\* filter, in list order; acc is [h, tasks]
RECURSIVE MakeTasks(_, _, _)
MakeTasks(n, d, acc) ==
  IF Len(acc.tasks) = n THEN acc
  ELSE LET c == DataCopy(acc.h, d)
       IN MakeTasks(n, d,
            [h |-> c.h,
             tasks |-> Append(acc.tasks,
                         [pc |-> "created", data |-> c.ref, result |-> None,
                          outcome |-> [raises |-> NoValue, status |-> NoValue,
                                       replied |-> FALSE],
                          seen |-> [absent |-> TRUE], at |-> 0])])

ParFilterLists ==
  UNION { [1..n -> {CognitiveFilter(nm) : nm \in ParFilterNames}] :
            n \in 0..MaxParFilters }

\* a ParallelPipeline with its filters added, and the caller's data object
ParInit ==
  /\ pfilters \in ParFilterLists
  /\ \E inp \in ParInputs :
       /\ pdata = <<[content |-> inp.content, metadata |-> 1, transformations |-> 1]>>
       /\ pdicts = <<inp.metadata>>
       /\ plists = <<inp.transformations>>
  /\ ptask = <<>>
  /\ pexec = [pc |-> "idle"]
  /\ pclock = 1
  /\ PipeIdle
  /\ CmdIdle
  /\ PubIdle
  /\ AcpIdle
  /\ SbIdle
  /\ RxIdle
  /\ ApiIdle

\* ParallelPipeline.execute up to the await of asyncio.gather
ParExecute ==
  /\ pexec.pc = "idle"
  /\ LET made == MakeTasks(Len(pfilters), 1,
                   [h |-> [data |-> pdata, dicts |-> pdicts, lists |-> plists],
                    tasks |-> <<>>])
     IN /\ pdata' = made.h.data
        /\ pdicts' = made.h.dicts
        /\ plists' = made.h.lists
        /\ ptask' = made.tasks
  /\ pexec' = [pc |-> "gather", input |-> 1,
               orig |-> PSnapshot(pdata, pdicts, plists, 1), results |-> <<>>]
  /\ UNCHANGED <<pfilters, pclock>>
  /\ UNCHANGED notParVars

\* CognitiveFilter.process(data) under outcome o: the heaps after its
\* in-place writes to data, the filter's thread_id, and the clock.  tid is
\* the id of the thread the service creates.
CognitiveProcess(f, h, d, o, tid, now) ==
  LET md == h.data[d].metadata
      ts == h.data[d].transformations
      thread == IF o.raises = "create_thread" \/ f.thread_id # None
                THEN f.thread_id ELSE tid
      mark(k, v) == [h EXCEPT !.dicts[md] = DictSet(h.dicts[md], f.name \o k, v)]
  IN IF o.raises # NoValue
     THEN [h |-> mark("_error", ClientError(o.raises)), thread_id |-> thread, now |-> now]
     ELSE IF o.status = "completed" /\ o.replied
     THEN [h |-> [mark("_status", "success") EXCEPT
                    !.data[d].content = Reply(f.name, h.data[d].content),
                    !.lists[ts] = Append(h.lists[ts], TransformationEntry(f.name, now))],
           thread_id |-> thread, now |-> now + 1]
     ELSE [h |-> mark("_status", "failed: " \o o.status), thread_id |-> thread, now |-> now]

\* one gathered coroutine runs: process has no await, so it runs from its
\* first line to its return without giving up the event loop, and the
\* loop starts the coroutines in the order gather was given them
ParProcess(i) ==
  /\ pexec.pc = "gather"
  /\ i \in DOMAIN ptask
  /\ ptask[i].pc = "created"
  /\ \A j \in 1..(i - 1) : ptask[j].pc # "created"
  /\ \E o \in ParOutcomes :
       LET d == ptask[i].data
           p == CognitiveProcess(pfilters[i],
                                 [data |-> pdata, dicts |-> pdicts, lists |-> plists],
                                 d, o, i, pclock)
       IN /\ pdata' = p.h.data
          /\ pdicts' = p.h.dicts
          /\ plists' = p.h.lists
          /\ pclock' = p.now
          /\ pfilters' = [pfilters EXCEPT ![i].thread_id = p.thread_id]
          /\ ptask' = [ptask EXCEPT ![i] =
                         [pc |-> "done", data |-> d, result |-> d, outcome |-> o,
                          seen |-> PSnapshot(pdata, pdicts, plists, d), at |-> pclock]]
  /\ UNCHANGED pexec
  /\ UNCHANGED notParVars

\* asyncio.gather resolves: the results in the order of the filters
ParGatherDone ==
  /\ pexec.pc = "gather"
  /\ \A i \in DOMAIN ptask : ptask[i].pc = "done"
  /\ pexec' = [pexec EXCEPT !.pc = "done",
                            !.results = [i \in DOMAIN ptask |-> ptask[i].result]]
  /\ UNCHANGED <<pfilters, pdata, pdicts, plists, ptask, pclock>>
  /\ UNCHANGED notParVars

NextParallel ==
  \/ ParExecute
  \/ \E i \in 1..MaxParFilters : ParProcess(i)
  \/ ParGatherDone

SpecParallel == ParInit /\ [][NextParallel]_vars

\* -------------------------------------------- the sequential Pipeline
\* data.metadata.get(f"{filter.name}_status") == "failed"
StopsPipeline(metadata, name) ==
  /\ (name \o "_status") \in DOMAIN metadata
  /\ metadata[name \o "_status"] = "failed"

\* Pipeline.execute up to its loop: ptask logs the process calls made
SeqExecute ==
  /\ pexec.pc = "idle"
  /\ pexec' = [pc |-> "loop", input |-> 1, next |-> 1, stopped |-> FALSE,
               orig |-> PSnapshot(pdata, pdicts, plists, 1)]
  /\ UNCHANGED <<pfilters, pdata, pdicts, plists, ptask, pclock>>
  /\ UNCHANGED notParVars

\* one turn of the loop: data = await filter.process(data), then the test
\* that ends the loop.  process has no await and returns the object it was
\* given.
SeqProcess ==
  /\ pexec.pc = "loop"
  /\ ~pexec.stopped
  /\ pexec.next \in DOMAIN pfilters
  /\ \E o \in ParOutcomes :
       LET i == pexec.next
           d == pexec.input
           p == CognitiveProcess(pfilters[i],
                                 [data |-> pdata, dicts |-> pdicts, lists |-> plists],
                                 d, o, i, pclock)
       IN /\ pdata' = p.h.data
          /\ pdicts' = p.h.dicts
          /\ plists' = p.h.lists
          /\ pclock' = p.now
          /\ pfilters' = [pfilters EXCEPT ![i].thread_id = p.thread_id]
          /\ ptask' = Append(ptask,
                        [pc |-> "done", data |-> d, result |-> d, outcome |-> o,
                         seen |-> PSnapshot(pdata, pdicts, plists, d), at |-> pclock])
          /\ pexec' = [pexec EXCEPT
                         !.next = i + 1,
                         !.stopped = StopsPipeline(p.h.dicts[p.h.data[d].metadata],
                                                   pfilters[i].name)]
  /\ UNCHANGED notParVars

\* the loop is over, by break or at the end of the list: return data
SeqReturn ==
  /\ pexec.pc = "loop"
  /\ pexec.stopped \/ pexec.next \notin DOMAIN pfilters
  /\ pexec' = [pexec EXCEPT !.pc = "done"]
  /\ UNCHANGED <<pfilters, pdata, pdicts, plists, ptask, pclock>>
  /\ UNCHANGED notParVars

NextSequential ==
  \/ SeqExecute
  \/ SeqProcess
  \/ SeqReturn

SpecSequential == ParInit /\ [][NextSequential]_vars

\* ======================================================= command messages
MaxOps == 3          \* most register / dispatch / execute_command calls

CommandNames == {"command1", "command2"}

HandlerIds == {1, 2}

\* AgentConfig(name="Handler1"), AgentConfig(name="Handler2")
HandlerName(h) == "Handler" \o ToString(h)

\* Python's None where a dict or a result is expected
PyNone == [py |-> "None"]

\* a function given to CommandHandler: what calling it does
CommandFunction(name, is_async, suspends, body) ==
  [name |-> name, is_async |-> is_async, suspends |-> suspends, body |-> body]

NoFunction == CommandFunction(NoValue, FALSE, FALSE, NoValue)

sample_command_handler == CommandFunction("sample_command_handler", TRUE, FALSE, "echo")
process_order_command == CommandFunction("process_order_command", TRUE, TRUE, "order")
calculate_total_command == CommandFunction("calculate_total_command", FALSE, FALSE, "total")
\* functions a caller may register besides the ones the repository ships:
\* one that returns None, one that raises, one that raises after a suspension
log_command == CommandFunction("log_command", FALSE, FALSE, "none")
reject_command == CommandFunction("reject_command", FALSE, FALSE, "raise")
reject_async_command == CommandFunction("reject_async_command", TRUE, TRUE, "raise")
\* the slow function of the timeout test, and a function that takes as long
\* without awaiting anything (time.sleep instead of asyncio.sleep)
slow_command_handler == CommandFunction("slow_command_handler", TRUE, TRUE, "slow")
slow_sync_command == CommandFunction("slow_sync_command", FALSE, FALSE, "slow")

\* how long the function's body takes, in milliseconds
Duration(func) ==
  CASE func.name \in {"slow_command_handler", "slow_sync_command"} -> 5000
    [] func.name = "process_order_command" -> 1000
    [] func.name = "reject_async_command" -> 500
    [] OTHER -> 0

ParamPool ==
  { [order_id |-> "ORD-1001", items |-> <<>>],
    [order_id |-> "ORD-1002", items |-> <<[price |-> 50, quantity |-> 2],
                                          [price |-> 30, quantity |-> 3]>>] }

RECURSIVE Total(_)
Total(items) ==
  IF items = <<>> THEN 0
  ELSE Head(items).price * Head(items).quantity + Total(Tail(items))

\* the function's body run to its end on params: [raises, value, message],
\* message being str(e) of the error raised
RunBody(func, params) ==
  CASE func.body = "echo" ->
         [raises |-> FALSE, message |-> NoValue,
          value |-> [processed |-> TRUE, input |-> params]]
    [] func.body = "order" ->
         [raises |-> FALSE, message |-> NoValue,
          value |-> [order_id |-> params.order_id, status |-> "processed",
                     confirmation |-> "ORD-CONF-" \o params.order_id]]
    [] func.body = "total" ->
         [raises |-> FALSE, message |-> NoValue,
          value |-> [total |-> Total(params.items),
                     items_count |-> Len(params.items), currency |-> "BRL"]]
    [] func.body = "none" ->
         [raises |-> FALSE, message |-> NoValue, value |-> PyNone]
    [] func.body = "slow" ->
         [raises |-> FALSE, message |-> NoValue, value |-> [done |-> TRUE]]
    [] OTHER ->
         [raises |-> TRUE, message |-> "rejected", value |-> PyNone]

NoResponse == [absent |-> TRUE]

\* CommandMessage(id, source, destination, command_name, parameters)
CommandMessage(id, source, destination, name, params) ==
  [id |-> id, source |-> source, destination |-> destination,
   command_name |-> name, parameters |-> params]

\* a success response that says "ok" where the status belongs
CreateSuccessResponseOk(h, command, result) ==
  [source |-> HandlerName(h), destination |-> command.source,
   correlation_id |-> command.id, status |-> "ok",
   result |-> result, error |-> NoValue, payload |-> [result |-> result]]

\* CommandHandler._create_success_response: error keeps its default None
CreateSuccessResponse(h, command, result) ==
  [source |-> HandlerName(h), destination |-> command.source,
   correlation_id |-> command.id, status |-> "success",
   result |-> result, error |-> NoValue, payload |-> [result |-> result]]

\* an error response that does not carry the command's id
CreateErrorResponseNoCorrelation(h, command, error_message) ==
  [source |-> HandlerName(h), destination |-> command.source,
   correlation_id |-> None, status |-> "error",
   result |-> PyNone, error |-> error_message, payload |-> [error |-> error_message]]

\* an error response that also fills result
CreateErrorResponseWithResult(h, command, error_message) ==
  [source |-> HandlerName(h), destination |-> command.source,
   correlation_id |-> command.id, status |-> "error",
   result |-> [error |-> error_message], error |-> error_message,
   payload |-> [error |-> error_message]]

\* CommandHandler._create_error_response: result keeps its default None
CreateErrorResponse(h, command, error_message) ==
  [source |-> HandlerName(h), destination |-> command.source,
   correlation_id |-> command.id, status |-> "error",
   result |-> PyNone, error |-> error_message, payload |-> [error |-> error_message]]

\* the text of the KeyError a plain dict lookup raises
UnknownCommandKeyError(name) == "'" \o name \o "'"

\* f"Unknown command: {command_name}"
UnknownCommandMessage(name) == "Unknown command: " \o name

\* f"Nenhum handler registrado para comando '{command_name}'"
NoHandlerMessage(name) == "Nenhum handler registrado para comando '" \o name \o "'"

BusNames(bus) == {bus[i].name : i \in DOMAIN bus}

\* a lookup that falls back on the first handler registered
BusLookupFallback(bus, name) ==
  IF name \in BusNames(bus)
  THEN bus[CHOOSE i \in DOMAIN bus : bus[i].name = name].handler
  ELSE IF bus # <<>> THEN bus[1].handler ELSE None

\* `command_name not in self._handlers` and `self._handlers[command_name]`:
\* the handler bound to the name, None when there is none
BusLookup(bus, name) ==
  IF name \in BusNames(bus)
  THEN bus[CHOOSE i \in DOMAIN bus : bus[i].name = name].handler
  ELSE None

\* a registration that drops the name's entry and adds it again at the end
BusRegisterMoveToEnd(bus, name, h) ==
  Append(SelectSeq(bus, LAMBDA e : e.name # name), [name |-> name, handler |-> h])

\* a registration that keeps the handler a name already has
BusRegisterFirstWins(bus, name, h) ==
  IF name \in BusNames(bus) THEN bus
  ELSE Append(bus, [name |-> name, handler |-> h])

\* self._handlers[command_name] = handler: a dict keeps a key's place when
\* the key is assigned again
BusRegister(bus, name, h) ==
  IF name \in BusNames(bus)
  THEN [i \in DOMAIN bus |-> IF bus[i].name = name
                             THEN [name |-> name, handler |-> h] ELSE bus[i]]
  ELSE Append(bus, [name |-> name, handler |-> h])

\* an execute_command whose try block does not cover the function's errors
RespondPropagate(h, command, out) ==
  IF out.raises
  THEN [pc |-> "raised", response |-> NoResponse, raised |-> out.message]
  ELSE [pc |-> "returned", response |-> CreateSuccessResponse(h, command, out.value),
        raised |-> NoValue]

\* execute_command once the function has returned or raised (lines 105-110)
Respond(h, command, out) ==
  IF out.raises
  THEN [pc |-> "returned", response |-> CreateErrorResponse(h, command, out.message),
        raised |-> NoValue]
  ELSE [pc |-> "returned", response |-> CreateSuccessResponse(h, command, out.value),
        raised |-> NoValue]

\* execute_command up to its return or to the suspension of the awaited
\* coroutine: [pc, func, invoked, response, raised]
ExecuteStart(h, command, registry) ==
  LET name == command.command_name
  IN IF name \notin DOMAIN registry
     THEN [pc |-> "returned", func |-> NoFunction, invoked |-> <<>>,
           response |-> CreateErrorResponse(h, command, UnknownCommandMessage(name)),
           raised |-> NoValue]
     ELSE LET f == registry[name]
              inv == <<[handler |-> h, func |-> f.name, parameters |-> command.parameters]>>
          IN IF f.is_async /\ f.suspends
             THEN [pc |-> "awaiting", func |-> f, invoked |-> inv,
                   response |-> NoResponse, raised |-> NoValue]
             ELSE LET r == Respond(h, command, RunBody(f, command.parameters))
                  IN [pc |-> r.pc, func |-> f, invoked |-> inv,
                      response |-> r.response, raised |-> r.raised]

\* one entry of the log of operations; registry is every handler's dict
\* when the operation began
Entry(op, name, params, h, id, registry, x) ==
  [op |-> op, name |-> name, parameters |-> params, handler |-> h,
   command_id |-> id, registry |-> registry, pc |-> x.pc, func |-> x.func,
   invoked |-> x.invoked, response |-> x.response, raised |-> x.raised]

Returned(func) ==
  [pc |-> "returned", func |-> func, invoked |-> <<>>, response |-> NoResponse,
   raised |-> NoValue]

\* the dicts the handlers are constructed with: Handler1 with none or with
\* two functions, Handler2 with two others
InitRegistries ==
  { <<r1, [command1 |-> process_order_command, command2 |-> log_command]>> :
      r1 \in { EmptyDict,
               [command1 |-> sample_command_handler, command2 |-> reject_command] } }

\* the register_command calls made after construction
RegisterPool ==
  { <<1, "command1", reject_async_command>>,
    <<2, "command2", calculate_total_command>> }

\* two CommandHandlers and an empty CommandBus
CmdInit ==
  /\ command_handlers \in InitRegistries
  /\ bus_handlers = <<>>
  /\ calls = <<>>
  /\ ops = 0
  /\ loop_time = 0
  /\ timers = <<>>
  /\ PipeIdle
  /\ ParIdle
  /\ PubIdle
  /\ AcpIdle
  /\ SbIdle
  /\ RxIdle
  /\ ApiIdle

\* CommandBus.register_handler(name, handler h)
RegisterHandler(name, h) ==
  /\ ops < MaxOps
  /\ bus_handlers' = BusRegister(bus_handlers, name, h)
  /\ calls' = Append(calls, Entry("register_handler", name, EmptyDict, h, None,
                                  command_handlers, Returned(NoFunction)))
  /\ ops' = ops + 1
  /\ UNCHANGED command_handlers
  /\ UNCHANGED <<loop_time, timers>>
  /\ UNCHANGED notCmdVars

\* CommandHandler.register_command(name, func) on handler h
RegisterCommand(h, name, func) ==
  /\ ops < MaxOps
  /\ command_handlers' = [command_handlers EXCEPT ![h] = DictSet(@, name, func)]
  /\ calls' = Append(calls, Entry("register_command", name, EmptyDict, h, None,
                                  command_handlers, Returned(func)))
  /\ ops' = ops + 1
  /\ UNCHANGED bus_handlers
  /\ UNCHANGED <<loop_time, timers>>
  /\ UNCHANGED notCmdVars

\* CommandBus.dispatch(name, params), up to its return, its raise or the
\* suspension of the function it awaits
Dispatch(name, params) ==
  /\ ops < MaxOps
  /\ LET h == BusLookup(bus_handlers, name)
         id == Len(calls) + 1
     IN IF h = None
        THEN calls' = Append(calls,
               Entry("dispatch", name, params, None, None, command_handlers,
                     [pc |-> "raised", func |-> NoFunction, invoked |-> <<>>,
                      response |-> NoResponse, raised |-> NoHandlerMessage(name)]))
        ELSE calls' = Append(calls,
               Entry("dispatch", name, params, h, id, command_handlers,
                     ExecuteStart(h, CommandMessage(id, "CommandBus", HandlerName(h),
                                                    name, params),
                                  command_handlers[h])))
  /\ ops' = ops + 1
  /\ UNCHANGED <<command_handlers, bus_handlers>>
  /\ UNCHANGED <<loop_time, timers>>
  /\ UNCHANGED notCmdVars

\* handler h's execute_command on a CommandMessage a client built
ExecuteCommand(h, name, params) ==
  /\ ops < MaxOps
  /\ LET id == Len(calls) + 1
     IN calls' = Append(calls,
          Entry("execute_command", name, params, h, id, command_handlers,
                ExecuteStart(h, CommandMessage(id, "client", HandlerName(h), name, params),
                             command_handlers[h])))
  /\ ops' = ops + 1
  /\ UNCHANGED <<command_handlers, bus_handlers>>
  /\ UNCHANGED <<loop_time, timers>>
  /\ UNCHANGED notCmdVars

\* the command the call c executes
CommandOf(c) ==
  CommandMessage(calls[c].command_id,
                 CASE calls[c].op = "dispatch" -> "CommandBus"
                   [] calls[c].op \in {"invoke_command", "invoke_async"} -> "TestInvoker"
                   [] OTHER -> "client",
                 HandlerName(calls[c].handler), calls[c].name, calls[c].parameters)

\* the handler the bus has under the call's name when the call resumes
RespondingHandlerRebound(c) == BusLookup(bus_handlers, calls[c].name)

\* self in execute_command: the handler the coroutine was called on
RespondingHandler(c) == calls[c].handler

\* the coroutine a call awaits runs to its end and execute_command resumes
CoroutineDone(c) ==
  /\ calls[c].pc = "awaiting"
  /\ LET r == Respond(RespondingHandler(c), CommandOf(c),
                      RunBody(calls[c].func, calls[c].parameters))
     IN calls' = [calls EXCEPT ![c].pc = r.pc, ![c].response = r.response,
                               ![c].raised = r.raised]
  /\ UNCHANGED <<command_handlers, bus_handlers, ops>>
  /\ UNCHANGED <<loop_time, timers>>
  /\ UNCHANGED notCmdVars

\* CommandBus.list_commands: list(self._handlers.keys())
ListCommands(bus) == [i \in DOMAIN bus |-> bus[i].name]

NextCommand ==
  \/ \E name \in CommandNames, h \in HandlerIds : RegisterHandler(name, h)
  \/ \E reg \in RegisterPool : RegisterCommand(reg[1], reg[2], reg[3])
  \/ \E name \in CommandNames, params \in ParamPool : Dispatch(name, params)
  \/ \E h \in HandlerIds, name \in CommandNames, params \in ParamPool :
       ExecuteCommand(h, name, params)
  \/ \E c \in DOMAIN calls : CoroutineDone(c)

SpecCommand == CmdInit /\ [][NextCommand]_vars

\* ------------------------------------------------------- CommandInvoker
MaxInvokes == 2      \* most invoke_command / invoke_async calls

\* the parameters the invoker's callers pass
InvokerParamPool == { [order_id |-> "ORD-1001", items |-> <<>>] }

\* timeout=1 of the timeout test and the default timeout=30, in seconds
TimeoutPool == {1, 30}

\* the handlers an invoker is given: Handler1 with the slow functions or
\* with one function only, Handler2 with a quick and a failing function
InvokerRegistries ==
  { <<r1, [command1 |-> sample_command_handler, command2 |-> reject_async_command]>> :
      r1 \in { [command1 |-> slow_command_handler, command2 |-> slow_sync_command],
               [command1 |-> process_order_command] } }

InvokerInit ==
  /\ command_handlers \in InvokerRegistries
  /\ bus_handlers = <<>>
  /\ calls = <<>>
  /\ ops = 0
  /\ loop_time = 0
  /\ timers = <<>>
  /\ PipeIdle
  /\ ParIdle
  /\ PubIdle
  /\ AcpIdle
  /\ SbIdle
  /\ RxIdle
  /\ ApiIdle

\* the time a step of execute_command keeps the event loop: the whole body
\* of a function that does not suspend
Blocked_ms(x) == IF x.func # NoFunction /\ ~x.func.suspends THEN Duration(x.func) ELSE 0

Timer(timeout, x, started, id) ==
  [timeout |-> timeout, started |-> started, deadline |-> started + timeout * 1000,
   finish |-> started + (IF x.func # NoFunction THEN Duration(x.func) ELSE 0),
   returned_id |-> id]

\* CommandInvoker.invoke_command up to the first suspension inside
\* wait_for(handler.execute_command(command), timeout), or to its return
\* when execute_command never suspends
InvokeCommand(h, name, params, timeout) ==
  /\ ops < MaxInvokes
  /\ LET id == Len(calls) + 1
         x == ExecuteStart(h, CommandMessage(id, "TestInvoker", HandlerName(h), name, params),
                           command_handlers[h])
     IN /\ calls' = Append(calls, Entry("invoke_command", name, params, h, id,
                                        command_handlers, x))
        /\ timers' = Append(timers, Timer(timeout, x, loop_time, None))
        /\ loop_time' = loop_time + Blocked_ms(x)
  /\ ops' = ops + 1
  /\ UNCHANGED <<command_handlers, bus_handlers>>
  /\ UNCHANGED notCmdVars

\* an invoke_async that runs execute_command before it returns
CreateTaskAwaited(h, command, registry) == ExecuteStart(h, command, registry)

\* asyncio.create_task(handler.execute_command(command)): the coroutine is
\* scheduled, none of it has run
CreateTask(h, command, registry) ==
  [pc |-> "scheduled", func |-> NoFunction, invoked |-> <<>>,
   response |-> NoResponse, raised |-> NoValue]

\* CommandInvoker.invoke_async: it has no await and returns command.id
InvokeAsync(h, name, params) ==
  /\ ops < MaxInvokes
  /\ LET id == Len(calls) + 1
         x == CreateTask(h, CommandMessage(id, "TestInvoker", HandlerName(h), name, params),
                         command_handlers[h])
     IN /\ calls' = Append(calls, Entry("invoke_async", name, params, h, id,
                                        command_handlers, x))
        /\ timers' = Append(timers, Timer(0, x, loop_time, id))
        /\ loop_time' = loop_time + Blocked_ms(x)
  /\ ops' = ops + 1
  /\ UNCHANGED <<command_handlers, bus_handlers>>
  /\ UNCHANGED notCmdVars

\* the event loop starts a task made by invoke_async
TaskStart(c) ==
  /\ calls[c].pc = "scheduled"
  /\ LET x == ExecuteStart(calls[c].handler, CommandOf(c),
                           command_handlers[calls[c].handler])
     IN /\ calls' = [calls EXCEPT ![c].pc = x.pc, ![c].func = x.func,
                                  ![c].invoked = x.invoked,
                                  ![c].response = x.response, ![c].raised = x.raised]
        /\ timers' = [timers EXCEPT ![c] = Timer(0, x, loop_time, timers[c].returned_id)]
        /\ loop_time' = loop_time + Blocked_ms(x)
  /\ UNCHANGED <<command_handlers, bus_handlers, ops>>
  /\ UNCHANGED notCmdVars

\* a timeout that may fire before its time
TimeoutDueAnyTime(c) == TRUE

\* wait_for's timer has run out
TimeoutDue(c) == timers[c].deadline <= loop_time

FinishDue(c) == timers[c].finish <= loop_time

\* the times at which something the loop waits for becomes due
PendingTimes ==
  {timers[c].finish : c \in {k \in DOMAIN calls : calls[k].pc = "awaiting"}}
  \cup {timers[c].deadline :
          c \in {k \in DOMAIN calls : calls[k].pc = "awaiting"
                                      /\ calls[k].op = "invoke_command"}}

\* the loop runs the timers that are due in the order of their times
EarliestDue(t) == \A u \in PendingTimes : u <= loop_time => t <= u

\* the awaited function of an invoker's call finishes
InvokerCoroutineDone(c) ==
  /\ c \in DOMAIN timers
  /\ calls[c].pc = "awaiting"
  /\ FinishDue(c)
  /\ EarliestDue(timers[c].finish)
  /\ CoroutineDone(c)

\* wait_for cancels execute_command and raises TimeoutError, which
\* invoke_command logs and raises again (lines 209-211)
TimeoutFires(c) ==
  /\ calls[c].op = "invoke_command"
  /\ calls[c].pc = "awaiting"
  /\ TimeoutDue(c)
  /\ EarliestDue(timers[c].deadline)
  /\ calls' = [calls EXCEPT ![c].pc = "raised", ![c].raised = "TimeoutError"]
  /\ UNCHANGED <<command_handlers, bus_handlers, ops, loop_time, timers>>
  /\ UNCHANGED notCmdVars

\* the loop sleeps until the next timer: nothing is ready to run
Tick ==
  /\ \A c \in DOMAIN calls : calls[c].pc # "scheduled"
  /\ PendingTimes # {}
  /\ \A t \in PendingTimes : t > loop_time
  /\ loop_time' = CHOOSE t \in PendingTimes : \A u \in PendingTimes : t <= u
  /\ UNCHANGED <<command_handlers, bus_handlers, calls, ops, timers>>
  /\ UNCHANGED notCmdVars

NextInvoker ==
  \/ \E h \in HandlerIds, name \in CommandNames, params \in InvokerParamPool, timeout \in TimeoutPool :
       InvokeCommand(h, name, params, timeout)
  \/ \E h \in HandlerIds, name \in CommandNames, params \in InvokerParamPool :
       InvokeAsync(h, name, params)
  \/ \E c \in DOMAIN calls : TaskStart(c)
  \/ \E c \in DOMAIN calls : InvokerCoroutineDone(c)
  \/ \E c \in DOMAIN calls : TimeoutFires(c)
  \/ Tick

SpecInvoker == InvokerInit /\ [][NextInvoker]_vars

\* ===================================================== publish/subscribe
MaxPubOps == 3       \* most register_subscriber / publish / direct handle_message calls

\* TopicType: the values of the enum
TopicValues == {"customer_events", "order_events", "system_events", "analytics_events"}

\* TopicType(value): the enum member, ValueError for any other string
TopicType(value) == [value |-> value]

\* the topics the model's publishers use
PublishTopics == {"customer_events", "order_events"}

\* Message(topic, payload, message_id, timestamp)
Message(topic, message_id) ==
  [topic |-> topic, payload |-> [event_type |-> "created"],
   message_id |-> message_id, timestamp |-> "t"]

\* Message.to_dict: the topic goes out as the enum's value
ToDict(message) ==
  [topic |-> message.topic.value, payload |-> message.payload,
   message_id |-> message.message_id, timestamp |-> message.timestamp]

\* Message.from_dict of a parsed event body: [raises, message]
FromDict(data) ==
  IF data.topic \in TopicValues
  THEN [raises |-> FALSE,
        message |-> [topic |-> TopicType(data.topic), payload |-> data.payload,
                     message_id |-> data.message_id, timestamp |-> data.timestamp]]
  ELSE [raises |-> TRUE, message |-> [absent |-> TRUE]]

\* an event some other producer put on the hub, with a topic the enum lacks
ForeignEvent ==
  [topic |-> "billing_events", payload |-> [event_type |-> "created"],
   message_id |-> "ext_1", timestamp |-> "t"]

\* AgentSubscriber(name, ..., subscribed_topics, ...)
AgentSubscriber(name, topics) ==
  [name |-> name, subscribed_topics |-> topics, thread_id |-> None,
   processed_count |-> 0]

\* the subscribers of the demo
SubscriberPool ==
  { AgentSubscriber("Customer Service Agent", {TopicType("customer_events")}),
    AgentSubscriber("Order Processing Agent", {TopicType("order_events")}),
    AgentSubscriber("Analytics Agent", {TopicType(v) : v \in TopicValues}) }

\* what the agent service does during one handle_message
PubOutcomes ==
  { o \in ParOutcomes : /\ o.raises \in {NoValue, "create_thread"}
                        /\ o.status = "completed" => o.replied }

\* a subscriber that takes every topic
IsSubscribedToAny(sub, topic) == TRUE

\* AgentSubscriber.is_subscribed_to
IsSubscribedTo(sub, topic) == topic \in sub.subscribed_topics

\* a count that goes up at every handling
CountAfterAlways(count, success) == count + 1

\* self.processed_count += 1, reached on the success path only
CountAfter(count, success) == IF success THEN count + 1 ELSE count

\* the client call that raises under outcome o: create_thread is only
\* called when the subscriber has no thread yet
RaisingCall(sub, o) ==
  IF o.raises = "create_thread" /\ sub.thread_id # None THEN "create_message"
  ELSE o.raises

\* AgentSubscriber.handle_message(message) under outcome o:
\* [result, sub, client_calls, raised]; tid is the id of a new thread and
\* at the time of the call
HandleMessage(sub, message, o, tid, at) ==
  IF ~IsSubscribedTo(sub, message.topic)
  THEN [result |-> [status |-> "skipped", reason |-> "not_subscribed"],
        sub |-> sub, client_calls |-> <<>>, raised |-> FALSE]
  ELSE LET first == IF sub.thread_id = None THEN <<"create_thread">> ELSE <<>>
           threaded == [sub EXCEPT !.thread_id = IF @ = None THEN tid ELSE @]
           success == o.raises = NoValue /\ o.status = "completed" /\ o.replied
           counted == [threaded EXCEPT
                         !.processed_count = CountAfter(@, success)]
       IN IF o.raises # NoValue
          THEN [result |-> [status |-> "error", subscriber |-> sub.name,
                            error |-> ClientError(RaisingCall(sub, o))],
                sub |-> IF RaisingCall(sub, o) = "create_thread"
                        THEN [sub EXCEPT !.processed_count = CountAfter(@, FALSE)]
                        ELSE counted,
                client_calls |-> IF RaisingCall(sub, o) = "create_thread" THEN first
                                 ELSE IF RaisingCall(sub, o) = "create_message"
                                 THEN first \o <<"create_message">>
                                 ELSE first \o <<"create_message", "create_and_process_run">>,
                raised |-> FALSE]
          ELSE IF success
          THEN [result |-> [status |-> "success", subscriber |-> sub.name,
                            topic |-> message.topic.value,
                            message_id |-> message.message_id,
                            response |-> Reply(sub.name, message.message_id),
                            processed_count |-> counted.processed_count,
                            timestamp |-> ToString(at)],
                sub |-> counted,
                client_calls |-> first \o <<"create_message", "create_and_process_run",
                                            "list_messages">>,
                raised |-> FALSE]
          ELSE [result |-> [status |-> "error", subscriber |-> sub.name,
                            error |-> "Run status: " \o o.status],
                sub |-> counted,
                client_calls |-> first \o <<"create_message", "create_and_process_run">>
                                 \o (IF o.status = "completed" THEN <<"list_messages">>
                                     ELSE <<>>),
                raised |-> FALSE]

\* one entry of the log of handle_message calls
Handling(s, message, via, o, r) ==
  [sub |-> s, message_id |-> message.message_id, topic |-> message.topic.value,
   via |-> via, outcome |-> o, result |-> r.result, raised |-> r.raised,
   client_calls |-> r.client_calls,
   subscribed |-> message.topic \in subscribers[s].subscribed_topics,
   count_before |-> subscribers[s].processed_count,
   count_after |-> r.sub.processed_count,
   thread_before |-> subscribers[s].thread_id,
   thread_after |-> r.sub.thread_id]

\* a matching that takes every registered subscriber
InterestedAll(subs, topic) == [i \in DOMAIN subs |-> i]

\* [sub for sub in self.subscribers if sub.is_subscribed_to(message.topic)],
\* as positions in the list
Interested(subs, topic) ==
  LET RECURSIVE Pick(_)
      Pick(i) == IF i > Len(subs) THEN <<>>
                 ELSE IF IsSubscribedTo(subs[i], topic) THEN <<i>> \o Pick(i + 1)
                 ELSE Pick(i + 1)
  IN Pick(1)

\* a send that puts the event on the hub twice
SendEventTwice(h, data) == Append(Append(h, data), data)

\* EventHubAdapter.send_event: one EventData in one batch, sent once
SendEvent(h, data) == Append(h, data)

\* an event of another producer with a topic of the enum
SystemEvent == ToDict(Message(TopicType("system_events"), "ext_2"))

\* a PubSubBroker over an adapter whose hub is empty or holds an event of
\* another producer
PubInit ==
  /\ subscribers = <<>>
  /\ hub \in {<<>>, <<ForeignEvent>>, <<SystemEvent>>}
  /\ consume = [pc |-> "idle"]
  /\ handled = <<>>
  /\ published = <<>>
  /\ consumed = <<>>
  /\ pub_ops = 0
  /\ PipeIdle
  /\ ParIdle
  /\ CmdIdle
  /\ AcpIdle
  /\ SbIdle
  /\ RxIdle
  /\ ApiIdle

\* a consume step whose task list is the broker's own list: a subscriber
\* appended at position n joins the deliveries in flight
InFlightAfterRegisterLive(c, sub, n) ==
  IF c.pc = "gather" /\ c.message.topic \in sub.subscribed_topics
  THEN [c EXCEPT !.tasks = Append(@, [sub |-> n, pc |-> "created",
                                      result |-> [absent |-> TRUE]])]
  ELSE c

\* the consume step in flight after self.subscribers.append(subscriber):
\* interested_subscribers is a list of its own, built before the gather
InFlightAfterRegister(c, sub, n) == c

\* PubSubBroker.register_subscriber
RegisterSubscriber(sub) ==
  /\ pub_ops < MaxPubOps
  /\ subscribers' = Append(subscribers, sub)
  /\ consume' = InFlightAfterRegister(consume, sub, Len(subscribers) + 1)
  /\ pub_ops' = pub_ops + 1
  /\ UNCHANGED <<hub, handled, published, consumed>>
  /\ UNCHANGED notPubVars

\* PubSubBroker.publish: one send_event call, which may fail
Publish(topic, sent) ==
  /\ pub_ops < MaxPubOps
  /\ LET message == Message(TopicType(topic), "msg_" \o ToString(Len(published) + 1))
     IN /\ published' = Append(published, [message |-> message, send_event_calls |-> 1,
                                           raised |-> ~sent])
        /\ hub' = IF sent THEN SendEvent(hub, ToDict(message)) ELSE hub
  /\ pub_ops' = pub_ops + 1
  /\ UNCHANGED <<subscribers, consume, handled, consumed>>
  /\ UNCHANGED notPubVars

\* one entry of the log of finished _process_event calls
Consumed(body, parsed, interested, results) ==
  [message_id |-> body.message_id, topic |-> body.topic, parsed |-> parsed,
   interested |-> interested, results |-> results, raised |-> FALSE,
   registered |-> Len(subscribers), registered_at_end |-> Len(subscribers)]

\* the hub hands its next event to _process_event, which runs up to the
\* await of asyncio.gather, or to its end when the body does not parse or
\* no subscriber is interested
Deliver ==
  /\ consume.pc = "idle"
  /\ hub # <<>>
  /\ hub' = Tail(hub)
  /\ LET body == Head(hub)
         parsed == FromDict(body)
         interested == IF parsed.raises THEN <<>>
                       ELSE Interested(subscribers, parsed.message.topic)
     IN IF parsed.raises \/ interested = <<>>
        THEN /\ consumed' = Append(consumed, Consumed(body, ~parsed.raises, <<>>, <<>>))
             /\ UNCHANGED consume
        ELSE /\ consume' = [pc |-> "gather", message |-> parsed.message,
                            registered |-> Len(subscribers),
                            tasks |-> [i \in DOMAIN interested |->
                                         [sub |-> interested[i], pc |-> "created",
                                          result |-> [absent |-> TRUE]]]]
             /\ UNCHANGED consumed
  /\ UNCHANGED <<subscribers, handled, published, pub_ops>>
  /\ UNCHANGED notPubVars

\* a gather that runs a coroutine again when its result is an error
TaskAfterRetry(result) == IF result.status = "error" THEN "created" ELSE "done"

\* a gathered coroutine is awaited once: it is over when it has returned
TaskAfter(result) == "done"

\* one gathered handle_message runs: it has no await, so it runs from its
\* first line to its return, and the loop starts the coroutines in order
HandleTask(i) ==
  /\ consume.pc = "gather"
  /\ i \in DOMAIN consume.tasks
  /\ consume.tasks[i].pc = "created"
  /\ \A j \in 1..(i - 1) : consume.tasks[j].pc # "created"
  /\ \E o \in PubOutcomes :
       LET sx == consume.tasks[i].sub
           r == HandleMessage(subscribers[sx], consume.message, o,
                              Len(handled) + 1, Len(handled) + 1)
       IN /\ subscribers' = [subscribers EXCEPT ![sx] = r.sub]
          /\ handled' = Append(handled, Handling(sx, consume.message, "consume", o, r))
          /\ consume' = [consume EXCEPT !.tasks[i].pc = TaskAfter(r.result),
                                        !.tasks[i].result = r.result]
  /\ UNCHANGED <<hub, published, consumed, pub_ops>>
  /\ UNCHANGED notPubVars

\* a gather that gives up at the first error result
GatherResolvedOnFirstError(tasks) ==
  \/ \A i \in DOMAIN tasks : tasks[i].pc = "done"
  \/ \E i \in DOMAIN tasks : tasks[i].pc = "done" /\ tasks[i].result.status = "error"

\* asyncio.gather(*tasks, return_exceptions=True) resolves when every task
\* is over
GatherResolved(tasks) == \A i \in DOMAIN tasks : tasks[i].pc = "done"

\* _process_event after the gather: the results are logged and it returns
ConsumeDone ==
  /\ consume.pc = "gather"
  /\ GatherResolved(consume.tasks)
  /\ consumed' = Append(consumed,
       [Consumed(ToDict(consume.message), TRUE,
                 [i \in DOMAIN consume.tasks |-> consume.tasks[i].sub],
                 [i \in DOMAIN consume.tasks |-> consume.tasks[i].result])
        EXCEPT !.registered = consume.registered])
  /\ consume' = [pc |-> "idle"]
  /\ UNCHANGED <<subscribers, hub, handled, published, pub_ops>>
  /\ UNCHANGED notPubVars

\* a caller other than the broker awaits subscriber s's handle_message
DirectHandle(s, topic) ==
  /\ pub_ops < MaxPubOps
  /\ s \in DOMAIN subscribers
  /\ \E o \in PubOutcomes :
       LET message == Message(TopicType(topic), "direct_" \o ToString(Len(handled) + 1))
           r == HandleMessage(subscribers[s], message, o,
                              Len(handled) + 1, Len(handled) + 1)
       IN /\ subscribers' = [subscribers EXCEPT ![s] = r.sub]
          /\ handled' = Append(handled, Handling(s, message, "direct", o, r))
  /\ pub_ops' = pub_ops + 1
  /\ UNCHANGED <<hub, consume, published, consumed>>
  /\ UNCHANGED notPubVars

NextPubSub ==
  \/ \E sub \in SubscriberPool : RegisterSubscriber(sub)
  \/ \E topic \in PublishTopics, sent \in BOOLEAN : Publish(topic, sent)
  \/ Deliver
  \/ \E i \in 1..MaxPubOps : HandleTask(i)
  \/ ConsumeDone
  \/ \E s \in 1..MaxPubOps, topic \in PublishTopics : DirectHandle(s, topic)

SpecPubSub == PubInit /\ [][NextPubSub]_vars

\* ===================================== services: asynchronous command pipeline
MaxSubmits == 2      \* most submit_command calls
MaxConsumes == 4     \* most events the consumer is handed

\* CommandType and CommandStatus: the values of the enums
CommandTypeValues ==
  {"process_data", "analyze_content", "generate_report", "validate_input",
   "transform_data"}
CommandStatusValues == {"pending", "processing", "completed", "failed", "cancelled"}

\* CommandType(value) / CommandStatus(value): the enum member
CommandType(value) == [enum |-> "CommandType", value |-> value]
CommandStatus(value) == [enum |-> "CommandStatus", value |-> value]

\* CommandMessage(command_id, command_type, parameters, status): result and
\* error start as None
PipelineCommand(command_id, command_type, status) ==
  [command_id |-> command_id, command_type |-> command_type,
   parameters |-> [operation |-> "calculate_statistics"],
   status |-> status, result |-> PyNone, error |-> NoValue]

\* CommandMessage.to_dict: the enums go out as their values
CommandToDict(command) ==
  [command_id |-> command.command_id, command_type |-> command.command_type.value,
   parameters |-> command.parameters, status |-> command.status.value,
   result |-> command.result, error |-> command.error]

\* CommandMessage.from_dict: [raises, command]
CommandFromDict(data) ==
  IF data.command_type \in CommandTypeValues /\ data.status \in CommandStatusValues
  THEN [raises |-> FALSE,
        command |-> [command_id |-> data.command_id,
                     command_type |-> CommandType(data.command_type),
                     parameters |-> data.parameters,
                     status |-> CommandStatus(data.status),
                     result |-> data.result, error |-> data.error]]
  ELSE [raises |-> TRUE, command |-> [absent |-> TRUE]]

\* CommandMessage.update_status(status, error): a falsy error leaves the
\* old one in place
UpdateStatus(command, status, error) ==
  [command EXCEPT !.status = status,
                  !.error = IF error \in {NoValue, ""} THEN @ ELSE error]

\* CommandProcessor(name, ..., command_types, ...)
CommandProcessor(name, command_types) ==
  [name |-> name, command_types |-> command_types, thread_id |-> None,
   processed_commands |-> 0]

\* the first two processors of the demo
DemoProcessors ==
  << CommandProcessor("Data Processor",
                      {CommandType("process_data"), CommandType("transform_data")}),
     CommandProcessor("Content Analyzer", {CommandType("analyze_content")}) >>

\* CommandProcessor.can_process
CanProcess(proc, command) == command.command_type \in proc.command_types

\* CommandProcessor.process_command(command) under outcome o:
\* [command, proc]; tid is the id of a new thread
ProcessCommand(proc, command, o, tid, at) ==
  IF ~CanProcess(proc, command)
  THEN [command |-> UpdateStatus(command, CommandStatus("failed"),
                                 "Processor '" \o proc.name \o "' cannot handle "
                                   \o command.command_type.value),
        proc |-> proc]
  ELSE LET started == UpdateStatus(command, CommandStatus("processing"), NoValue)
           call == IF o.raises = "create_thread" /\ proc.thread_id # None
                   THEN "create_message" ELSE o.raises
           threaded == IF call = "create_thread" THEN proc
                       ELSE [proc EXCEPT !.thread_id = IF @ = None THEN tid ELSE @]
       IN IF o.raises # NoValue
          THEN [command |-> UpdateStatus(started, CommandStatus("failed"),
                                         ClientError(call)),
                proc |-> threaded]
          ELSE IF o.status = "completed" /\ o.replied
          THEN [command |-> UpdateStatus(
                              [started EXCEPT !.result =
                                 [processor |-> proc.name,
                                  response |-> Reply(proc.name, command.command_id),
                                  execution_time |-> ToString(at)]],
                              CommandStatus("completed"), NoValue),
                proc |-> [threaded EXCEPT !.processed_commands = @ + 1]]
          ELSE [command |-> UpdateStatus(started, CommandStatus("failed"),
                                         "Agent run status: " \o o.status),
                proc |-> threaded]

\* a skip test that lets events in processing through
SkippedCompletedOnly(status) == status = CommandStatus("completed")

\* command.status in [CommandStatus.PROCESSING, CommandStatus.COMPLETED]
Skipped(status) == status \in {CommandStatus("processing"), CommandStatus("completed")}

\* next((p for p in self.processors if p.can_process(command)), None), as
\* a position in the list, 0 for None
FindProcessor(procs, command) ==
  IF \E i \in DOMAIN procs : CanProcess(procs[i], command)
  THEN CHOOSE i \in DOMAIN procs :
         /\ CanProcess(procs[i], command)
         /\ \A j \in 1..(i - 1) : ~CanProcess(procs[j], command)
  ELSE 0

\* the commands callers submit
SubmitPool ==
  { PipelineCommand(id, CommandType(t), CommandStatus(st)) :
      id \in {"cmd_1", "cmd_2"}, t \in {"process_data", "validate_input"},
      st \in {"pending", "processing"} }

\* an AsyncCommandPipeline with two processors registered
AcpInit ==
  /\ processors = DemoProcessors
  /\ command_store = EmptyDict
  /\ command_hub = <<>>
  /\ processed = <<>>
  /\ submitted = <<>>
  /\ PipeIdle
  /\ ParIdle
  /\ CmdIdle
  /\ PubIdle
  /\ SbIdle
  /\ RxIdle
  /\ ApiIdle

\* AsyncCommandPipeline.submit_command
SubmitCommand(command) ==
  /\ Len(submitted) < MaxSubmits
  /\ command_store' = DictSet(command_store, command.command_id, command)
  /\ command_hub' = SendEvent(command_hub, CommandToDict(command))
  /\ submitted' = Append(submitted, command.command_id)
  /\ UNCHANGED <<processors, processed>>
  /\ UNCHANGED notAcpVars

\* one entry of the log of _process_event calls
ProcessedEvent(data, skipped, processor, out, sent) ==
  [command_id |-> data.command_id, status_in |-> data.status, skipped |-> skipped,
   processor |-> processor, status_out |-> out, sent |-> sent, raised |-> FALSE]

\* the hub hands its next event to AsyncCommandPipeline._process_event
ProcessEvent ==
  /\ command_hub # <<>>
  /\ Len(processed) < MaxConsumes
  /\ LET data == Head(command_hub)
         parsed == CommandFromDict(data)
     IN IF parsed.raises \/ Skipped(parsed.command.status)
        THEN /\ command_hub' = Tail(command_hub)
             /\ processed' = Append(processed,
                               ProcessedEvent(data, TRUE, 0, data.status, FALSE))
             /\ UNCHANGED <<processors, command_store>>
        ELSE LET i == FindProcessor(processors, parsed.command)
             IN IF i = 0
                THEN LET failed == UpdateStatus(parsed.command, CommandStatus("failed"),
                                                "No processor available")
                     IN /\ command_store' = DictSet(command_store, failed.command_id, failed)
                        /\ command_hub' = SendEvent(Tail(command_hub), CommandToDict(failed))
                        /\ processed' = Append(processed,
                                          ProcessedEvent(data, FALSE, 0, "failed", TRUE))
                        /\ UNCHANGED processors
                ELSE \E o \in PubOutcomes :
                       LET r == ProcessCommand(processors[i], parsed.command, o,
                                               Len(processed) + 1, Len(processed) + 1)
                       IN /\ processors' = [processors EXCEPT ![i] = r.proc]
                          /\ command_store' = DictSet(command_store, r.command.command_id,
                                                      r.command)
                          /\ command_hub' = SendEvent(Tail(command_hub),
                                                      CommandToDict(r.command))
                          /\ processed' = Append(processed,
                                            ProcessedEvent(data, FALSE, i,
                                                           r.command.status.value, TRUE))
  /\ UNCHANGED submitted
  /\ UNCHANGED notAcpVars

NextAcp ==
  \/ \E command \in SubmitPool : SubmitCommand(command)
  \/ ProcessEvent

SpecAcp == AcpInit /\ [][NextAcp]_vars

\* ================================================ Service Bus agents
MaxReceives == 2     \* most receive_messages calls of one listening loop
MaxSbBatch == 2      \* most messages one receive_messages call returns
MaxStops == 1        \* most stop() calls

AgentKinds == {"queue", "subscriber"}

\* what happens while one received message is processed: what its body
\* is, what process_message does, and whether the receiver's and the
\* sender's calls succeed
SbOutcomes(kind) ==
  { [body |-> b, process |-> p, complete_ok |-> c, send_ok |-> s, settle_ok |-> a] :
      b \in {"valid", "bad_json", "bad_fields"},
      p \in (IF kind = "queue" THEN {"none", "response", "raises"} ELSE {"none", "raises"}),
      c \in BOOLEAN, s \in BOOLEAN, a \in BOOLEAN }

\* one call on self._receiver for a received message
SettleCall(call, ok) == [call |-> call, ok |-> ok]

\* _process_service_bus_message(msg) under outcome o: the settle calls it
\* makes on msg in order, whether a response was sent, and whether it
\* raised
ProcessServiceBusMessage(kind, o) ==
  IF o.body = "bad_json"
  THEN [calls |-> <<SettleCall("dead_letter_message", o.settle_ok)>>,
        sent |-> FALSE, raised |-> ~o.settle_ok]
  ELSE IF o.body = "bad_fields" \/ o.process = "raises"
  THEN [calls |-> <<SettleCall("abandon_message", o.settle_ok)>>,
        sent |-> FALSE, raised |-> ~o.settle_ok]
  ELSE IF ~o.complete_ok
  THEN [calls |-> <<SettleCall("complete_message", FALSE),
                    SettleCall("abandon_message", o.settle_ok)>>,
        sent |-> FALSE, raised |-> ~o.settle_ok]
  ELSE IF kind = "queue" /\ o.process = "response" /\ ~o.send_ok
  THEN [calls |-> <<SettleCall("complete_message", TRUE),
                    SettleCall("abandon_message", o.settle_ok)>>,
        sent |-> FALSE, raised |-> ~o.settle_ok]
  ELSE [calls |-> <<SettleCall("complete_message", TRUE)>>,
        sent |-> kind = "queue" /\ o.process = "response", raised |-> FALSE]

\* an agent of either kind, constructed and not started
SbInit ==
  /\ agent_kind \in AgentKinds
  /\ agent_running = FALSE
  /\ receiver = "none"
  /\ listening = [pc |-> "idle"]
  /\ settlements = <<>>
  /\ receives = <<>>
  /\ stops = <<>>
  /\ PipeIdle
  /\ ParIdle
  /\ CmdIdle
  /\ PubIdle
  /\ AcpIdle
  /\ RxIdle
  /\ ApiIdle

\* start_processing / start_listening up to its loop: start() when there
\* is no receiver yet
StartListening ==
  /\ listening.pc = "idle"
  /\ IF receiver = "none"
     THEN agent_running' = TRUE /\ receiver' = "open"
     ELSE UNCHANGED <<agent_running, receiver>>
  /\ listening' = [pc |-> "check"]
  /\ UNCHANGED <<agent_kind, settlements, receives, stops>>
  /\ UNCHANGED notSbVars

\* stop() was called while the loop was under way
StoppedWhileListening == \E k \in DOMAIN stops : stops[k].during # "idle"

\* while self.is_running(): the next receive_messages call starts, or the
\* loop and the async with block are left and the call returns
LoopCheck ==
  /\ listening.pc = "check"
  /\ IF agent_running
     THEN /\ Len(receives) < MaxReceives
          /\ listening' = [pc |-> "receiving"]
          /\ receives' = Append(receives, [after_stop |-> StoppedWhileListening])
          /\ UNCHANGED receiver
     ELSE /\ listening' = [pc |-> "returned"]
          /\ receiver' = "closed"
          /\ UNCHANGED receives
  /\ UNCHANGED <<agent_kind, agent_running, settlements, stops>>
  /\ UNCHANGED notSbVars

\* receive_messages returns n messages: none, or a batch whose
\* _process_service_bus_message coroutines are gathered
ReceiveReturns(n) ==
  /\ listening.pc = "receiving"
  /\ listening' = IF n = 0 THEN [pc |-> "check"]
                  ELSE [pc |-> "gather",
                        tasks |-> [i \in 1..n |->
                                     [receipt |-> <<Len(receives), i>>, pc |-> "created",
                                      raised |-> FALSE]]]
  /\ settlements' = <<>>
  /\ UNCHANGED <<agent_kind, agent_running, receiver, receives, stops>>
  /\ UNCHANGED notSbVars

\* receive_messages raises on a receiver that stop() closed under it: the
\* except block logs and raises again
ReceiveRaises ==
  /\ listening.pc = "receiving"
  /\ receiver = "closed"
  /\ listening' = [pc |-> "raised"]
  /\ UNCHANGED <<agent_kind, agent_running, receiver, settlements, receives, stops>>
  /\ UNCHANGED notSbVars

\* one gathered _process_service_bus_message runs to its end
ProcessReceived(i) ==
  /\ listening.pc = "gather"
  /\ i \in DOMAIN listening.tasks
  /\ listening.tasks[i].pc = "created"
  /\ \E o \in SbOutcomes(agent_kind) :
       LET r == ProcessServiceBusMessage(agent_kind, o)
       IN /\ settlements' = settlements \o
                              [k \in DOMAIN r.calls |->
                                 [receipt |-> listening.tasks[i].receipt,
                                  call |-> r.calls[k].call, ok |-> r.calls[k].ok]]
          /\ listening' = [listening EXCEPT !.tasks[i].pc = "done",
                                            !.tasks[i].raised = r.raised]
  /\ UNCHANGED <<agent_kind, agent_running, receiver, receives, stops>>
  /\ UNCHANGED notSbVars

\* asyncio.gather(*tasks, return_exceptions=True) resolves: back to the
\* loop's test
BatchDone ==
  /\ listening.pc = "gather"
  /\ \A i \in DOMAIN listening.tasks : listening.tasks[i].pc = "done"
  /\ listening' = [pc |-> "check"]
  /\ UNCHANGED <<agent_kind, agent_running, receiver, settlements, receives, stops>>
  /\ UNCHANGED notSbVars

\* BaseAgent.stop with the agents' on_stop: _running goes to False and the
\* receiver is closed
Stop ==
  /\ Len(stops) < MaxStops
  /\ agent_running' = FALSE
  /\ receiver' = IF receiver = "none" THEN "none" ELSE "closed"
  /\ stops' = Append(stops, [during |-> listening.pc])
  /\ UNCHANGED <<agent_kind, listening, settlements, receives>>
  /\ UNCHANGED notSbVars

NextServiceBus ==
  \/ StartListening
  \/ LoopCheck
  \/ \E n \in 0..MaxSbBatch : ReceiveReturns(n)
  \/ ReceiveRaises
  \/ \E i \in 1..MaxSbBatch : ProcessReceived(i)
  \/ BatchDone
  \/ Stop

SpecServiceBus == SbInit /\ [][NextServiceBus]_vars

\* ===================================== EventHubAdapter.receive_events
MaxEvents == 3       \* most events of one batch

EventIds == {"event_a", "event_b"}

\* the batches the consumer client hands over
EventBatches == UNION { [1..n -> EventIds] : n \in 0..MaxEvents }

\* a loop that a failure ends: the later events of the batch are left out
AfterErrorLeavesLoop(i, n) == n + 1

\* the try/except is inside the for loop: after an error the loop goes on
\* with the next event
AfterError(i, n) == i + 1

\* on_event_batch is called with one batch
RxInit ==
  /\ rx_batch \in EventBatches
  /\ rx = [pc |-> "next", pos |-> 1]
  /\ callbacks = <<>>
  /\ checkpoints = <<>>
  /\ PipeIdle
  /\ ParIdle
  /\ CmdIdle
  /\ PubIdle
  /\ AcpIdle
  /\ SbIdle
  /\ ApiIdle

\* for event in events: await on_event(event) starts
OnEventStart ==
  /\ rx.pc = "next"
  /\ rx.pos \in DOMAIN rx_batch
  /\ callbacks' = Append(callbacks, [event |-> rx_batch[rx.pos], index |-> rx.pos,
                                     outcome |-> "running"])
  /\ rx' = [rx EXCEPT !.pc = "callback"]
  /\ UNCHANGED <<rx_batch, checkpoints>>
  /\ UNCHANGED notRxVars

\* the callback returns or raises: on to update_checkpoint, or to the
\* except clause and the next event
OnEventEnd(raises) ==
  /\ rx.pc = "callback"
  /\ callbacks' = [callbacks EXCEPT ![Len(callbacks)].outcome =
                     IF raises THEN "raised" ELSE "returned"]
  /\ rx' = IF raises THEN [pc |-> "next", pos |-> AfterError(rx.pos, Len(rx_batch))]
           ELSE [rx EXCEPT !.pc = "checkpoint"]
  /\ UNCHANGED <<rx_batch, checkpoints>>
  /\ UNCHANGED notRxVars

\* await partition_context.update_checkpoint(event), which may raise too
UpdateCheckpoint(ok) ==
  /\ rx.pc = "checkpoint"
  /\ checkpoints' = Append(checkpoints, [event |-> rx_batch[rx.pos], index |-> rx.pos,
                                         ok |-> ok, callbacks_made |-> Len(callbacks)])
  /\ rx' = [pc |-> "next",
            pos |-> IF ok THEN rx.pos + 1 ELSE AfterError(rx.pos, Len(rx_batch))]
  /\ UNCHANGED <<rx_batch, callbacks>>
  /\ UNCHANGED notRxVars

\* the loop is over: on_event_batch returns
BatchReturn ==
  /\ rx.pc = "next"
  /\ rx.pos \notin DOMAIN rx_batch
  /\ rx' = [rx EXCEPT !.pc = "done"]
  /\ UNCHANGED <<rx_batch, callbacks, checkpoints>>
  /\ UNCHANGED notRxVars

NextReceive ==
  \/ OnEventStart
  \/ \E raises \in BOOLEAN : OnEventEnd(raises)
  \/ \E ok \in BOOLEAN : UpdateCheckpoint(ok)
  \/ BatchReturn

SpecReceive == RxInit /\ [][NextReceive]_vars

\* ======================================================= API services
MaxRequests == 4     \* most requests the service answers

ApiServices == {"command_messages", "pubsub"}

\* the bool True that start_pipeline / start_consumers store in the global
PyTrue == [py |-> "True"]

\* Python's truth test of the global
Truthy(value) == value # PyNone

\* processing_task.cancel(): a bool has no cancel attribute, so the call
\* raises AttributeError; TRUE when it raises
CancelRaises(value) == value = PyTrue

\* the service after startup_event: the adapter and the pipeline / broker
\* exist, nothing runs in the background
ApiInit ==
  /\ api_service \in ApiServices
  /\ api_state = "up"
  /\ api_task = PyNone
  /\ api_loops = <<>>
  /\ api_adapter = "open"
  /\ api_responses = <<>>
  /\ PipeIdle
  /\ ParIdle
  /\ CmdIdle
  /\ PubIdle
  /\ AcpIdle
  /\ SbIdle
  /\ RxIdle

\* POST /pipeline/start or /consumers/start
StartRequest ==
  /\ api_state = "up"
  /\ Len(api_responses) < MaxRequests
  /\ IF Truthy(api_task)
     THEN /\ api_responses' = Append(api_responses, [status |-> "already_running"])
          /\ UNCHANGED <<api_task, api_loops>>
     ELSE /\ api_loops' = Append(api_loops, "added")
          /\ api_task' = PyTrue
          /\ api_responses' = Append(api_responses, [status |-> "started"])
  /\ UNCHANGED <<api_service, api_state, api_adapter>>
  /\ UNCHANGED notApiVars

\* GET /command-types or /topics: a request that touches none of the globals
ListRequest ==
  /\ api_state = "up"
  /\ Len(api_responses) < MaxRequests
  /\ api_responses' = Append(api_responses, [status |-> "listed"])
  /\ UNCHANGED <<api_service, api_state, api_task, api_loops, api_adapter>>
  /\ UNCHANGED notApiVars

\* the background task added by a start request begins its consume loop
BackgroundRun(i) ==
  /\ i \in DOMAIN api_loops
  /\ api_loops[i] = "added"
  /\ api_loops' = [api_loops EXCEPT ![i] = "running"]
  /\ UNCHANGED <<api_service, api_state, api_task, api_adapter, api_responses>>
  /\ UNCHANGED notApiVars

\* shutdown_event: cancel the task when the global is set, then close the
\* adapter
ShutdownEvent ==
  /\ api_state = "up"
  /\ IF Truthy(api_task) /\ CancelRaises(api_task)
     THEN /\ api_state' = "shutdown_raised"
          /\ UNCHANGED api_adapter
     ELSE /\ api_state' = "shutdown"
          /\ api_adapter' = "closed"
  /\ UNCHANGED <<api_service, api_task, api_loops, api_responses>>
  /\ UNCHANGED notApiVars

NextApi ==
  \/ StartRequest
  \/ ListRequest
  \/ \E i \in 1..MaxRequests : BackgroundRun(i)
  \/ ShutdownEvent

SpecApi == ApiInit /\ [][NextApi]_vars

\* ================================================================ claims
Last(t) == t[Len(t)]

\* C1: once a filter's process_message returns absent, process is over with
\* an absent result and nothing further is invoked for that message: the
\* absent return is the last event of the run.
C1_ShortCircuit ==
  \A r \in Runs : \A k \in 1..Len(trace[r]) :
    (trace[r][k].ev = "ret" /\ trace[r][k].out = None)
      => /\ k = Len(trace[r])
         /\ run[r].pc = "done"
         /\ run[r].result = None

\* a run was blocked by a filter that has a filter after it
C1_Witness ==
  \E r \in Runs :
    /\ run[r].pc = "done"
    /\ Len(trace[r]) > 0
    /\ Last(trace[r]).ev = "ret"
    /\ Last(trace[r]).out = None
    /\ Last(trace[r]).idx < Len(filters)

\* C2: after process returns, the message the caller passed in has the
\* payload and metadata it had before the call.  Stated for the filter
\* lists made of the filters the claim names, EnrichmentFilter and custom
\* filters that copy and then edit the payload.
C2_CallerEnvelopeUnchanged ==
  (\A i \in 1..Len(filters) :
      \/ filters[i].kind = "Enrichment"
      \/ filters[i].kind = "Custom" /\ filters[i].body = "uppercase")
  => \A r \in Runs :
       run[r].pc = "done" => Snapshot(msgs, dicts, run[r].input) = orig[r]

\* C3: a pipeline of one ValidationFilter requiring S returns absent iff a
\* field of S is missing from the payload the message was built with, and
\* otherwise returns a message with that payload.
C3_ValidationIff ==
  (Len(filters) = 1 /\ filters[1].kind = "Validation") =>
    \A r \in Runs :
      run[r].pc = "done" =>
        LET missing == \E field \in filters[1].required_fields :
                          field \notin DOMAIN orig[r].payload
        IN /\ (run[r].result = None) <=> missing
           /\ ~missing => /\ run[r].result \in 1..Len(msgs)
                          /\ PayloadOf(msgs, dicts, run[r].result) = orig[r].payload

\* one message rejected for one missing field of two, and one accepted
C3_Witness ==
  /\ Len(filters) = 1
  /\ filters[1].kind = "Validation"
  /\ filters[1].required_fields = {"name", "email"}
  /\ \E r \in Runs : run[r].pc = "done" /\ run[r].result = None
                     /\ "name" \in DOMAIN orig[r].payload
  /\ \E r \in Runs : run[r].pc = "done" /\ run[r].result # None

C5_NoPartialMutation ==
  \A r \in Runs : \A k \in 2..Len(trace[r]) :
    (/\ trace[r][k].ev = "ret"
     /\ trace[r][k].filter.kind = "Transform"
     /\ trace[r][k].filter.pass_through
     /\ trace[r][k].caught)
    => trace[r][k].post = trace[r][k - 1].pre

\* the runs that ended with an absent result
AbsentRuns == {r \in Runs : run[r].pc = "done" /\ run[r].result = None}

\* the messages that lack a field some ValidationFilter of the list requires
FailValidation ==
  {r \in Runs : \E i \in 1..Len(filters) :
      /\ filters[i].kind = "Validation"
      /\ \E field \in filters[i].required_fields : field \notin DOMAIN orig[r].payload}

RECURSIVE IsolatedProcess(_, _, _, _)
IsolatedProcess(fs, i, h, m) ==
  IF i > Len(fs) THEN [out |-> m, h |-> h]
  ELSE LET pm == ProcessMessage(fs[i], h, m)
       IN IF pm.out \in {None, Raised} THEN [out |-> pm.out, h |-> pm.h]
          ELSE IsolatedProcess(fs, i + 1, pm.h, pm.out)

\* what a caller sees of a result: absent, or the message's id and contents
Outcome(ms, ds, m) ==
  IF m \in {None, Raised} THEN [absent |-> TRUE, raised |-> m = Raised]
  ELSE [id |-> ms[m].id, payload |-> PayloadOf(ms, ds, m),
        metadata |-> MetadataOf(ms, ds, m)]

C7_Interleaved ==
  \E r, q \in Runs :
    /\ r # q
    /\ run[r].pc = "in_filter" /\ filters[run[r].i].suspends
    /\ run[q].pc = "in_filter" /\ filters[run[q].i].suspends

C8_StagesSequential ==
  \A r \in Runs : \A k \in 1..Len(trace[r]) :
    LET e == trace[r][k]
    IN IF e.ev = "call"
       THEN IF k = 1
            THEN e.idx = 1 /\ e.arg = run[r].input
            ELSE /\ trace[r][k - 1].ev = "ret"
                 /\ trace[r][k - 1].idx = e.idx - 1
                 /\ trace[r][k - 1].out = e.arg
       ELSE /\ k > 1
            /\ trace[r][k - 1].ev = "call"
            /\ trace[r][k - 1].idx = e.idx

\* a second filter was invoked on a message that the first filter created
C8_Witness ==
  \E r \in Runs : \E k \in 2..Len(trace[r]) :
    /\ trace[r][k].ev = "call"
    /\ trace[r][k].idx = 2
    /\ trace[r][k].arg # run[r].input

\* C9: a process call that has started never executes a filter that was
\* added to the list after it started.
C9_AddFilterOnlyLaterCalls ==
  \A r \in Runs : \A k \in 1..Len(trace[r]) :
    trace[r][k].idx <= run[r].lenAtStart

\* C10: process with an empty filter list returns the message it was given,
\* with the payload and metadata it was built with.
C10_EmptyPipeline ==
  \A r \in Runs :
    (run[r].pc = "done" /\ run[r].lenAtStart = 0) =>
      /\ run[r].result = run[r].input
      /\ Snapshot(msgs, dicts, run[r].result) = orig[r]

\* a process call on an empty pipeline has returned
C10_Witness ==
  \E r \in Runs : run[r].pc = "done" /\ run[r].lenAtStart = 0 /\ Len(filters) = 0

\* C11: process_message of a pass-through filter never returns absent,
\* whether the body returned a message, returned absent or raised; and a
\* run through pass-through filters only never ends absent.
C11_PassThroughNeverBlocks ==
  \A r \in Runs :
    /\ \A k \in 1..Len(trace[r]) :
         (trace[r][k].ev = "ret" /\ trace[r][k].filter.pass_through)
           => trace[r][k].out # None
    /\ (run[r].pc = "done" /\ \A i \in 1..Len(filters) : filters[i].pass_through)
         => run[r].result # None

\* in one run a pass-through body returned absent and another pass-through
\* body raised, and the run returned a message
C11_Witness ==
  \E r \in Runs :
    /\ run[r].pc = "done"
    /\ run[r].result # None
    /\ \A i \in 1..Len(filters) : filters[i].pass_through
    /\ \E k \in 1..Len(trace[r]) :
         trace[r][k].ev = "ret" /\ trace[r][k].how = "passed"
    /\ \E k \in 1..Len(trace[r]) :
         trace[r][k].ev = "ret" /\ trace[r][k].how = "error"

\* C13: every message process returns has the id of the message it was
\* called with, which is the id that message was built with.
C13_IdImmutable ==
  \A r \in Runs :
    /\ msgs[run[r].input].id = r
    /\ (run[r].pc = "done" /\ run[r].result \notin {None, Raised})
         => msgs[run[r].result].id = r

\* a run returned a message object other than its input: a copy made by a
\* Transform or Enrichment filter
C13_Witness ==
  \E r \in Runs :
    /\ run[r].pc = "done"
    /\ run[r].result \notin {None, Raised}
    /\ run[r].result # run[r].input
    /\ \E i \in 1..Len(filters) : filters[i].kind = "Transform"
    /\ \E i \in 1..Len(filters) : filters[i].kind = "Enrichment"

\* what filter i's process leaves in a copy of the original input under the
\* outcome it met, worked out from the input alone
ParExpected(i) ==
  LET o == ptask[i].outcome
      nm == pfilters[i].name
      in0 == pexec.orig
  IN IF o.raises # NoValue
     THEN [in0 EXCEPT !.metadata = DictSet(@, nm \o "_error", ClientError(o.raises))]
     ELSE IF o.status = "completed" /\ o.replied
     THEN [content |-> Reply(nm, in0.content),
           metadata |-> DictSet(in0.metadata, nm \o "_status", "success"),
           transformations |-> Append(in0.transformations,
                                      TransformationEntry(nm, ptask[i].at))]
     ELSE [in0 EXCEPT !.metadata = DictSet(@, nm \o "_status", "failed: " \o o.status)]

\* C12: ParallelPipeline.execute returns one result per filter, result i
\* being what filter i made of its own copy of the input; each filter was
\* handed the input as the caller gave it, without any other filter's
\* transformation or metadata marker; and the caller's data keeps its
\* content, metadata and transformation list throughout.
C12_ParallelIndependent ==
  /\ pexec.pc # "idle" =>
       /\ PSnapshot(pdata, pdicts, plists, pexec.input) = pexec.orig
       /\ \A i \in DOMAIN ptask :
            /\ ptask[i].data # pexec.input
            /\ ptask[i].pc = "created" =>
                 PSnapshot(pdata, pdicts, plists, ptask[i].data) = pexec.orig
            /\ ptask[i].pc = "done" =>
                 /\ ptask[i].seen = pexec.orig
                 /\ PSnapshot(pdata, pdicts, plists, ptask[i].data) = ParExpected(i)
  /\ pexec.pc = "done" =>
       /\ Len(pexec.results) = Len(pfilters)
       /\ \A i \in 1..Len(pfilters) : pexec.results[i] = ptask[i].data

\* a parallel run of two filters came back, the first having recorded a
\* transformation and the second a failure, over an input that already
\* carried metadata and a transformation
C12_Witness ==
  /\ pexec.pc = "done"
  /\ Len(pexec.results) = 2
  /\ ptask[1].outcome.replied
  /\ ptask[2].outcome.raises = NoValue /\ ptask[2].outcome.status = "failed"
  /\ pexec.orig.metadata # EmptyDict
  /\ pexec.orig.transformations # <<>>

\* the register_handler calls for name made before operation k of log
RegistrationsOf(log, k, name) ==
  {j \in 1..(k - 1) : log[j].op = "register_handler" /\ log[j].name = name}

\* the handler given in the latest of them
LastRegistered(log, k, name) ==
  LET js == RegistrationsOf(log, k, name)
  IN log[CHOOSE j \in js : \A o \in js : o <= j].handler

\* the calls that reached a handler's execute_command
Executions == {k \in DOMAIN calls : calls[k].op \in {"dispatch", "execute_command"}
                                    /\ calls[k].handler # None}

\* the function the handler of call k had under the call's name
BoundFunction(k) == calls[k].registry[calls[k].handler][calls[k].name]

IsKnown(k) == calls[k].name \in DOMAIN calls[k].registry[calls[k].handler]

\* C14: a dispatch for a name no register_handler call has bound raises the
\* no-handler-registered ValueError and returns no response; it invokes no
\* function and leaves the bus registry, the handlers' registries and the
\* earlier calls as they were.
C14_NoHandlerRaises ==
  [][LET k == Len(calls')
     IN (/\ Len(calls') = Len(calls) + 1
         /\ calls'[k].op = "dispatch"
         /\ RegistrationsOf(calls', k, calls'[k].name) = {})
        => /\ calls'[k].pc = "raised"
           /\ calls'[k].raised =
                "Nenhum handler registrado para comando '" \o calls'[k].name \o "'"
           /\ calls'[k].response = NoResponse
           /\ calls'[k].invoked = <<>>
           /\ bus_handlers' = bus_handlers
           /\ command_handlers' = command_handlers
           /\ \A j \in DOMAIN calls : calls'[j] = calls[j]]_vars

\* a dispatch raised on a bus that had a route for the other name, whose
\* handler knew the dispatched name
C14_Witness ==
  \E k \in DOMAIN calls :
    /\ calls[k].op = "dispatch"
    /\ calls[k].pc = "raised"
    /\ RegistrationsOf(calls, k, calls[k].name) = {}
    /\ \E j \in 1..(k - 1) :
         /\ calls[j].op = "register_handler"
         /\ calls[k].name \in DOMAIN calls[k].registry[calls[j].handler]

\* C15: a dispatch whose name is bound on the bus to a handler that has no
\* function under that name does not raise: it returns a response with
\* status error and the message "Unknown command: <name>".
C15_RouteWithoutFunction ==
  \A k \in DOMAIN calls :
    (/\ calls[k].op = "dispatch"
     /\ RegistrationsOf(calls, k, calls[k].name) # {}
     /\ calls[k].name \notin
          DOMAIN calls[k].registry[LastRegistered(calls, k, calls[k].name)])
    => /\ calls[k].pc = "returned"
       /\ calls[k].raised = NoValue
       /\ calls[k].response # NoResponse
       /\ calls[k].response.status = "error"
       /\ calls[k].response.error = "Unknown command: " \o calls[k].name

\* a dispatch was routed to a handler that has functions, but none under
\* the dispatched name
C15_Witness ==
  \E k \in DOMAIN calls :
    /\ calls[k].op = "dispatch"
    /\ calls[k].handler # None
    /\ ~IsKnown(k)
    /\ calls[k].registry[calls[k].handler] # EmptyDict
    /\ calls[k].pc = "returned"

\* C16: a dispatch is executed by the handler of the latest register_handler
\* call for its name and by no other: that handler's function is the only
\* one invoked, and the response's source is that handler's name.
C16_LastWriteWins ==
  \A k \in DOMAIN calls :
    (calls[k].op = "dispatch" /\ RegistrationsOf(calls, k, calls[k].name) # {})
    => LET h == LastRegistered(calls, k, calls[k].name)
       IN /\ calls[k].handler = h
          /\ \A n \in DOMAIN calls[k].invoked : calls[k].invoked[n].handler = h
          /\ calls[k].pc = "returned" => calls[k].response.source = HandlerName(h)

\* a name was bound to one handler, then to the other, and a dispatch then
\* ran the second handler's function
C16_Witness ==
  \E k \in DOMAIN calls :
    /\ calls[k].op = "dispatch"
    /\ calls[k].pc = "returned"
    /\ calls[k].invoked # <<>>
    /\ \E i, j \in RegistrationsOf(calls, k, calls[k].name) :
         i < j /\ calls[i].handler # calls[j].handler

\* C17: execute_command for a name the handler has no function under
\* returns status error, error "Unknown command: <name>" and the command's
\* id as correlation id, and invokes no function.
C17_UnknownCommand ==
  \A k \in Executions :
    ~IsKnown(k)
    => /\ calls[k].pc = "returned"
       /\ calls[k].response # NoResponse
       /\ calls[k].response.status = "error"
       /\ calls[k].response.error = "Unknown command: " \o calls[k].name
       /\ calls[k].response.correlation_id = calls[k].command_id
       /\ calls[k].invoked = <<>>

\* a client called execute_command with a name unknown to a handler that
\* has other functions
C17_Witness ==
  \E k \in Executions :
    /\ calls[k].op = "execute_command"
    /\ ~IsKnown(k)
    /\ calls[k].registry[calls[k].handler] # EmptyDict
    /\ calls[k].pc = "returned"

\* C18: when the function bound to the command raises, at its call or while
\* it is awaited, execute_command does not raise: it returns status error
\* with the error's message.
C18_FunctionErrorReturned ==
  \A k \in Executions :
    (IsKnown(k) /\ RunBody(BoundFunction(k), calls[k].parameters).raises)
    => /\ calls[k].pc \in {"awaiting", "returned"}
       /\ calls[k].raised = NoValue
       /\ calls[k].pc = "returned" =>
            /\ calls[k].response # NoResponse
            /\ calls[k].response.status = "error"
            /\ calls[k].response.error =
                 RunBody(BoundFunction(k), calls[k].parameters).message
            /\ calls[k].response.result = PyNone

\* one call returned the error of a synchronous function and another the
\* error of a function that raised after it had suspended
C18_Witness ==
  \E k1, k2 \in Executions :
    /\ IsKnown(k1) /\ IsKnown(k2)
    /\ BoundFunction(k1) = reject_command
    /\ BoundFunction(k2) = reject_async_command
    /\ calls[k1].pc = "returned" /\ calls[k2].pc = "returned"
    /\ calls[k1].response.status = "error"
    /\ calls[k2].response.status = "error"

\* C19: for a name the handler knows, execute_command invokes the bound
\* function once, with the command's parameters, and, when the function
\* does not raise, returns status success with the function's return value
\* as result, after the await when the function is asynchronous; a function
\* bound by a later register_command is run the same way.
C19_KnownCommand ==
  \A k \in Executions :
    IsKnown(k)
    => /\ calls[k].invoked = <<[handler |-> calls[k].handler,
                                func |-> BoundFunction(k).name,
                                parameters |-> calls[k].parameters]>>
       /\ calls[k].func = BoundFunction(k)
       /\ (calls[k].pc = "awaiting") =>
            (BoundFunction(k).is_async /\ BoundFunction(k).suspends
             /\ calls[k].response = NoResponse)
       /\ (calls[k].pc = "returned"
           /\ ~RunBody(BoundFunction(k), calls[k].parameters).raises) =>
            /\ calls[k].response # NoResponse
            /\ calls[k].response.status = "success"
            /\ calls[k].response.result =
                 RunBody(BoundFunction(k), calls[k].parameters).value
            /\ calls[k].response.error = NoValue

\* a function bound by a register_command call returned its value through a
\* later execute_command, and an awaited function returned its value too
C19_Witness ==
  /\ \E k \in Executions : \E j \in 1..(k - 1) :
       /\ calls[j].op = "register_command"
       /\ calls[j].handler = calls[k].handler /\ calls[j].name = calls[k].name
       /\ calls[k].pc = "returned"
       /\ calls[k].response.status = "success"
       /\ calls[k].response.result.total = 190
  /\ \E k \in Executions :
       /\ IsKnown(k)
       /\ BoundFunction(k) = process_order_command
       /\ calls[k].pc = "returned"
       /\ calls[k].response.status = "success"

\* the responses execute_command has returned
Responses == {k \in Executions : calls[k].pc = "returned"}

\* C20 as stated: status is success or error, result is present exactly on
\* success, error is present exactly on error, and the correlation id is
\* the command's id.
C20_ResponseShape ==
  \A k \in Responses :
    LET r == calls[k].response
    IN /\ r.status \in {"success", "error"}
       /\ (r.result # PyNone) <=> (r.status = "success")
       /\ (r.error # NoValue) <=> (r.status = "error")
       /\ r.correlation_id = calls[k].command_id

\* C20: status is success or error; error is present exactly on error;
\* result is absent on error and on success is the function's return
\* value, which is None when the function returns None; the correlation
\* id is the command's id.
C20_ResponseShapeAmended ==
  \A k \in Responses :
    LET r == calls[k].response
    IN /\ r.status \in {"success", "error"}
       /\ (r.result # PyNone) => (r.status = "success")
       /\ (r.status = "success") =>
            (IsKnown(k) /\ r.result = RunBody(BoundFunction(k), calls[k].parameters).value)
       /\ (r.error # NoValue) <=> (r.status = "error")
       /\ r.correlation_id = calls[k].command_id

\* a success response whose result is None, a success response with a
\* result, and an error response
C20_Witness ==
  /\ \E k \in Responses :
       calls[k].response.status = "success" /\ calls[k].response.result = PyNone
  /\ \E k \in Responses :
       calls[k].response.status = "success" /\ calls[k].response.result # PyNone
  /\ \E k \in Responses : calls[k].response.status = "error"

\* the calls made through CommandInvoker.invoke_command
Invocations == {k \in DOMAIN calls : calls[k].op = "invoke_command"}

\* C21: an invoke_command whose handler needs longer than the timeout ends
\* by raising TimeoutError and returns no response.
C21_SlowHandlerTimesOut ==
  \A k \in Invocations :
    (IsKnown(k) /\ Duration(BoundFunction(k)) > timers[k].timeout * 1000)
    => /\ calls[k].pc \in {"awaiting", "raised"}
       /\ calls[k].pc = "raised" =>
            (calls[k].raised = "TimeoutError" /\ calls[k].response = NoResponse)

\* the response execute_command gives for call k once the function is over
ExpectedResponse(k) ==
  LET out == RunBody(BoundFunction(k), calls[k].parameters)
      msg == IF ~IsKnown(k) THEN "Unknown command: " \o calls[k].name ELSE out.message
  IN IF IsKnown(k) /\ ~out.raises
     THEN [source |-> HandlerName(calls[k].handler), destination |-> "TestInvoker",
           correlation_id |-> calls[k].command_id, status |-> "success",
           result |-> out.value, error |-> NoValue, payload |-> [result |-> out.value]]
     ELSE [source |-> HandlerName(calls[k].handler), destination |-> "TestInvoker",
           correlation_id |-> calls[k].command_id, status |-> "error",
           result |-> PyNone, error |-> msg, payload |-> [error |-> msg]]

\* C22: the only failure invoke_command raises is TimeoutError, and only
\* when the timeout ran out no later than the function would have finished;
\* in every other case it returns the response of execute_command, error
\* responses for an unknown command or a failing function included.
C22_OnlyTimeoutRaises ==
  \A k \in Invocations :
    /\ calls[k].pc = "raised" =>
         /\ calls[k].raised = "TimeoutError"
         /\ calls[k].response = NoResponse
         /\ IsKnown(k)
         /\ timers[k].deadline <= timers[k].finish
         /\ timers[k].deadline <= loop_time
    /\ calls[k].pc = "returned" =>
         (calls[k].raised = NoValue /\ calls[k].response = ExpectedResponse(k))

\* one invoke_command returned the error of a function that failed while
\* awaited, and one timed out
C22_Witness ==
  /\ \E k \in Invocations :
       /\ calls[k].pc = "returned" /\ IsKnown(k)
       /\ BoundFunction(k) = reject_async_command
       /\ calls[k].response.status = "error"
  /\ \E k \in Invocations : calls[k].pc = "raised"

\* an invoke_command returned the error response of an unknown command
C22_UnknownReturned ==
  \E k \in Invocations :
    calls[k].pc = "returned" /\ ~IsKnown(k) /\ calls[k].response.status = "error"

\* C23: invoke_async returns the id of the command it built while the
\* execution has not begun; that id is the id of the command the handler
\* executes, and the execution's failure is never raised.
C23_InvokeAsyncReturnsId ==
  [][\A k \in DOMAIN calls' :
       calls'[k].op = "invoke_async"
       => /\ timers'[k].returned_id = calls'[k].command_id
          /\ timers'[k].returned_id = k
          /\ calls'[k].raised = NoValue
          /\ calls'[k].pc # "raised"
          /\ calls'[k].pc = "returned" =>
               calls'[k].response.correlation_id = timers'[k].returned_id
          /\ k \notin DOMAIN calls =>
               (/\ calls'[k].pc = "scheduled"
                /\ calls'[k].invoked = <<>>
                /\ calls'[k].response = NoResponse)]_vars

\* an execution started by invoke_async ended in an error response after
\* its function had been awaited, and another is still awaiting
C23_Witness ==
  /\ \E k \in DOMAIN calls :
       /\ calls[k].op = "invoke_async"
       /\ calls[k].pc = "returned"
       /\ calls[k].invoked # <<>>
       /\ calls[k].func = reject_async_command
       /\ calls[k].response.status = "error"
  /\ \E k \in DOMAIN calls :
       calls[k].op = "invoke_async" /\ calls[k].pc = "awaiting"

\* the names of the register_handler calls of log, each at its first call
RECURSIVE FirstRegistrationOrder(_)
FirstRegistrationOrder(log) ==
  IF log = <<>> THEN <<>>
  ELSE LET before == FirstRegistrationOrder(SubSeq(log, 1, Len(log) - 1))
           e == log[Len(log)]
       IN IF e.op = "register_handler"
             /\ \A i \in DOMAIN before : before[i] # e.name
          THEN Append(before, e.name)
          ELSE before

\* C24: list_commands holds every registered name once, in the order in
\* which the names were first registered; registering a name again leaves
\* the list as it was.
C24_ListCommands ==
  LET l == ListCommands(bus_handlers)
  IN /\ l = FirstRegistrationOrder(calls)
     /\ \A i, j \in DOMAIN l : l[i] = l[j] => i = j

\* a name was registered, then another, then the first again
C24_Witness ==
  /\ Len(ListCommands(bus_handlers)) = 2
  /\ \E i, j, k \in DOMAIN calls :
       /\ i < j /\ j < k
       /\ calls[i].op = "register_handler"
       /\ calls[j].op = "register_handler"
       /\ calls[k].op = "register_handler"
       /\ calls[i].name = calls[k].name
       /\ calls[i].name # calls[j].name

\* C25: whatever the order of register_handler calls and dispatches, the bus
\* has one handler per name; a dispatch either raised no-handler-registered
\* or runs on the handler its name had when it was called, and a
\* register_handler made while the dispatch awaits its function changes
\* neither the function it runs nor the handler that answers.
C25_ConcurrentRegistry ==
  /\ \A i, j \in DOMAIN bus_handlers :
       bus_handlers[i].name = bus_handlers[j].name => i = j
  /\ \A k \in DOMAIN calls :
       calls[k].op = "dispatch"
       => IF RegistrationsOf(calls, k, calls[k].name) = {}
          THEN calls[k].pc = "raised" /\ calls[k].handler = None
          ELSE LET h == LastRegistered(calls, k, calls[k].name)
               IN /\ calls[k].handler = h
                  /\ calls[k].pc # "raised"
                  /\ IsKnown(k) =>
                       (/\ calls[k].func = calls[k].registry[h][calls[k].name]
                        /\ Len(calls[k].invoked) = 1
                        /\ calls[k].invoked[1].handler = h)
                  /\ calls[k].pc = "returned" =>
                       calls[k].response.source = HandlerName(h)

\* a dispatch was awaiting its function when its name was bound to the
\* other handler, and then returned
C25_Witness ==
  \E k \in DOMAIN calls : \E j \in (k + 1)..Len(calls) :
    /\ calls[k].op = "dispatch"
    /\ calls[k].func.suspends
    /\ calls[k].pc = "returned"
    /\ calls[j].op = "register_handler"
    /\ calls[j].name = calls[k].name
    /\ calls[j].handler # calls[k].handler
    /\ BusLookup(bus_handlers, calls[k].name) # calls[k].handler

\* the handle_message calls the consume step made for the event message_id
ConsumeHandlings(message_id) ==
  { k \in DOMAIN handled : handled[k].via = "consume" /\ handled[k].message_id = message_id }

\* the registered subscribers, of the first n, whose topic set contains t
Matching(n, t) ==
  { i \in 1..n : TopicType(t) \in subscribers[i].subscribed_topics }

\* C26: in a consume step for a message with topic t, handle_message is
\* invoked exactly for the registered subscribers whose topic set contains
\* t; a subscriber not subscribed to t is never invoked, and a message no
\* subscriber matches is dropped with no invocation and no error.
C26_ExactlyMatchingInvoked ==
  /\ \A k \in DOMAIN handled :
       handled[k].via = "consume" => handled[k].subscribed
  /\ \A e \in DOMAIN consumed :
       consumed[e].parsed =>
         /\ { consumed[e].interested[i] : i \in DOMAIN consumed[e].interested }
              = Matching(consumed[e].registered, consumed[e].topic)
         /\ { handled[k].sub : k \in ConsumeHandlings(consumed[e].message_id) }
              = Matching(consumed[e].registered, consumed[e].topic)
         /\ Cardinality(ConsumeHandlings(consumed[e].message_id))
              = Cardinality(Matching(consumed[e].registered, consumed[e].topic))
         /\ ~consumed[e].raised

\* a message went to one of two registered subscribers only, and another
\* message that no registered subscriber matched was dropped
C26_Witness ==
  /\ \E e \in DOMAIN consumed :
       /\ consumed[e].parsed
       /\ consumed[e].registered = 2
       /\ Cardinality(ConsumeHandlings(consumed[e].message_id)) = 1
  /\ \E e \in DOMAIN consumed :
       /\ consumed[e].parsed
       /\ consumed[e].registered >= 1
       /\ consumed[e].interested = <<>>
       /\ ConsumeHandlings(consumed[e].message_id) = {}

\* C27: in a consume step a failure in one subscriber's handling neither
\* prevents nor fails the others: every matching subscriber is invoked and
\* runs to its own outcome, whatever the outcomes of the others, and the
\* consume step completes without raising.
C27_FailureIsolated ==
  \A e \in DOMAIN consumed :
    /\ ~consumed[e].raised
    /\ Len(consumed[e].results) = Len(consumed[e].interested)
    /\ \A i \in DOMAIN consumed[e].interested :
         \E k \in ConsumeHandlings(consumed[e].message_id) :
           /\ handled[k].sub = consumed[e].interested[i]
           /\ handled[k].result = consumed[e].results[i]
           /\ handled[k].result.status =
                IF /\ handled[k].outcome.raises = NoValue
                   /\ handled[k].outcome.status = "completed"
                   /\ handled[k].outcome.replied
                THEN "success" ELSE "error"

\* the first of two matching subscribers failed and the second succeeded
C27_Witness ==
  \E e \in DOMAIN consumed :
    /\ Len(consumed[e].interested) = 2
    /\ consumed[e].results[1].status = "error"
    /\ consumed[e].results[2].status = "success"

\* C28: handle_message on a message whose topic is not in the subscriber's
\* topic set returns the skipped result without running the handler body:
\* no agent call is made, no thread is created and processed_count is
\* unchanged.
C28_NotSubscribedSkipped ==
  \A k \in DOMAIN handled :
    ~handled[k].subscribed =>
      /\ handled[k].result = [status |-> "skipped", reason |-> "not_subscribed"]
      /\ handled[k].client_calls = <<>>
      /\ handled[k].thread_after = handled[k].thread_before
      /\ handled[k].count_after = handled[k].count_before
      /\ ~handled[k].raised

\* a subscriber without a thread was handed a message of a topic it does
\* not take, under an agent service that would have replied
C28_Witness ==
  \E k \in DOMAIN handled :
    /\ ~handled[k].subscribed
    /\ handled[k].thread_before = None
    /\ handled[k].outcome.raises = NoValue
    /\ handled[k].outcome.replied
    /\ handled[k].result.status = "skipped"

\* C29: handle_message never raises: an error of the handler body comes
\* back as a result with status error, and processed_count goes up by one
\* exactly for a handling that ends with status success.
C29_ErrorsCaptured ==
  \A k \in DOMAIN handled :
    /\ ~handled[k].raised
    /\ handled[k].result.status \in {"success", "error", "skipped"}
    /\ (handled[k].subscribed /\ handled[k].outcome.raises # NoValue) =>
         /\ handled[k].result.status = "error"
         /\ handled[k].result.error =
              ClientError(IF handled[k].outcome.raises = "create_thread"
                             /\ handled[k].thread_before # None
                          THEN "create_message" ELSE handled[k].outcome.raises)
    /\ handled[k].count_after =
         handled[k].count_before + (IF handled[k].result.status = "success" THEN 1 ELSE 0)
    /\ handled[k].result.status = "success" =>
         handled[k].result.processed_count = handled[k].count_after

\* one subscriber had a handling that failed in the agent service and a
\* handling that succeeded
C29_Witness ==
  \E k1, k2 \in DOMAIN handled :
    /\ handled[k1].sub = handled[k2].sub
    /\ k1 < k2
    /\ handled[k1].outcome.raises # NoValue
    /\ handled[k1].result.status = "error"
    /\ handled[k1].count_after = 0
    /\ handled[k2].result.status = "success"
    /\ handled[k2].count_after = 1

\* C30: publish hands the message to the transport exactly once and invokes
\* no subscriber: a publish step adds the message's dictionary to the hub
\* once (or nothing, when the send raises) and leaves the subscribers, the
\* consume step and the handle_message log as they were; the broker invokes
\* handle_message only in a consume step, for the event that step took
\* from the transport.
C30_PublishOnlySends ==
  [][/\ published' # published =>
          /\ Len(published') = Len(published) + 1
          /\ hub' = IF published'[Len(published')].raised THEN hub
                    ELSE Append(hub, [topic |-> published'[Len(published')].message.topic.value,
                                      payload |-> published'[Len(published')].message.payload,
                                      message_id |-> published'[Len(published')].message.message_id,
                                      timestamp |-> published'[Len(published')].message.timestamp])
          /\ handled' = handled
          /\ subscribers' = subscribers
          /\ consume' = consume
          /\ consumed' = consumed
     /\ (handled' # handled /\ handled'[Len(handled')].via = "consume") =>
          /\ published' = published
          /\ consume.pc = "gather"
          /\ handled'[Len(handled')].message_id = consume.message.message_id]_vars

\* a message was published to a topic a registered subscriber takes, it is
\* on the hub once and no handle_message call has been made
C30_Witness ==
  /\ published # <<>>
  /\ ~published[1].raised
  /\ hub = <<ToDict(published[1].message)>>
  /\ \E i \in DOMAIN subscribers :
       published[1].message.topic \in subscribers[i].subscribed_topics
  /\ handled = <<>>
  /\ consume.pc = "idle"

\* C31: delivery is at-most-once with a single attempt: an inbound event
\* is consumed once, it causes at most one handle_message call per
\* matching subscriber, and a handling that failed is not made again.
C31_AtMostOnce ==
  /\ \A k1, k2 \in DOMAIN handled :
       (/\ handled[k1].via = "consume"
        /\ handled[k2].via = "consume"
        /\ handled[k1].message_id = handled[k2].message_id
        /\ handled[k1].sub = handled[k2].sub) => k1 = k2
  /\ \A e1, e2 \in DOMAIN consumed :
       consumed[e1].message_id = consumed[e2].message_id => e1 = e2
  /\ \A e \in DOMAIN consumed, i \in DOMAIN hub :
       hub[i].message_id # consumed[e].message_id

\* a consume step ended with the error of its only subscriber; the event
\* is gone from the hub and the handling was made once
C31_Witness ==
  \E e \in DOMAIN consumed :
    /\ Len(consumed[e].results) = 1
    /\ consumed[e].results[1].status = "error"
    /\ Cardinality(ConsumeHandlings(consumed[e].message_id)) = 1
    /\ consume.pc = "idle"
    /\ hub = <<>>
    /\ pub_ops = MaxPubOps

\* the subscribers, in list order, that the tasks of consume step c belong to
TaskSubscribers(c) == [i \in DOMAIN c.tasks |-> c.tasks[i].sub]

\* C37: the subscribers of an inbound message are fixed when the consume
\* step matches topics: the subscriber list only grows, in registration
\* order; while deliveries are in flight their subscribers stay the same, so
\* a subscriber registered meanwhile is not handed that message; and each
\* later matching takes every subscriber registered by then that takes the
\* topic.
C37_SubscribersFixedAtMatching ==
  [][/\ Len(subscribers') >= Len(subscribers)
     /\ \A i \in DOMAIN subscribers :
          /\ subscribers'[i].name = subscribers[i].name
          /\ subscribers'[i].subscribed_topics = subscribers[i].subscribed_topics
     /\ (consume.pc = "gather" /\ consume'.pc = "gather") =>
          TaskSubscribers(consume') = TaskSubscribers(consume)
     /\ (consume.pc = "idle" /\ consume'.pc = "gather") =>
          { consume'.tasks[i].sub : i \in DOMAIN consume'.tasks }
            = { i \in DOMAIN subscribers :
                  consume'.message.topic \in subscribers[i].subscribed_topics }
     /\ (handled' # handled /\ handled'[Len(handled')].via = "consume") =>
          /\ handled'[Len(handled')].sub <= consume.registered
          /\ \E i \in DOMAIN consume.tasks :
               consume.tasks[i].sub = handled'[Len(handled')].sub
     /\ (consume.pc = "gather" /\ consume'.pc = "idle") =>
          consumed'[Len(consumed')].interested = TaskSubscribers(consume)]_vars

\* a subscriber registered during the deliveries of one message that it
\* would have taken was left out of them and took part in a later message's
C37_Witness ==
  \E e1, e2 \in DOMAIN consumed :
    /\ e1 < e2
    /\ consumed[e1].registered = 1
    /\ consumed[e1].registered_at_end = 2
    /\ consumed[e1].interested = <<1>>
    /\ TopicType(consumed[e1].topic) \in subscribers[2].subscribed_topics
    /\ \A k \in ConsumeHandlings(consumed[e1].message_id) : handled[k].sub = 1
    /\ \E k \in ConsumeHandlings(consumed[e2].message_id) : handled[k].sub = 2

\* the process call k of a sequential run ended with a failed status in
\* the data's metadata
EndedFailed(k) ==
  /\ ptask[k].outcome.raises = NoValue
  /\ ~(ptask[k].outcome.status = "completed" /\ ptask[k].outcome.replied)

\* C32: the sequential Pipeline.execute stops at the first filter that
\* fails: once a filter's run has ended with a failed status recorded in
\* the data's metadata, no later filter of the pipeline is invoked.
C32_StopsAtFirstFailure ==
  (pexec.pc \in {"loop", "done"}) =>
    \A k \in DOMAIN ptask : EndedFailed(k) => Len(ptask) = k

\* C33: _process_event skips every inbound command event whose status is
\* PROCESSING or COMPLETED: no processor is invoked, command_store is
\* unchanged and nothing is sent back to the hub.
C33_SkipsProcessingAndCompleted ==
  [][(/\ processed' # processed
      /\ processed'[Len(processed')].status_in \in {"processing", "completed"}) =>
       /\ processed'[Len(processed')].processor = 0
       /\ ~processed'[Len(processed')].sent
       /\ processors' = processors
       /\ command_store' = command_store
       /\ command_hub' = Tail(command_hub)]_vars

\* an event in processing and the completed result event of another command
\* were both consumed, and the store still holds what it held
C33_Witness ==
  \E k1, k2 \in DOMAIN processed :
    /\ processed[k1].status_in = "processing"
    /\ processed[k1].skipped
    /\ command_store[processed[k1].command_id].status.value = "processing"
    /\ processed[k2].status_in = "completed"
    /\ processed[k2].skipped
    /\ command_store[processed[k2].command_id].status.value = "completed"
    /\ command_hub = <<>>

\* the submit_command calls made for command id
SubmitsOf(id) == { k \in DOMAIN submitted : submitted[k] = id }

\* C34: consuming reaches quiescence: each command is handed to a
\* processor at most once, and a result event (COMPLETED or FAILED) that
\* _process_event sent back to the hub never triggers another processing or
\* another send for that command.
C34_ResultEventsTriggerNothing ==
  /\ \A k \in DOMAIN processed :
       processed[k].status_in \in {"completed", "failed"} =>
         /\ processed[k].processor = 0
         /\ ~processed[k].sent
  /\ \A k1, k2 \in DOMAIN processed :
       (/\ processed[k1].command_id = processed[k2].command_id
        /\ Cardinality(SubmitsOf(processed[k1].command_id)) = 1
        /\ processed[k1].processor # 0
        /\ processed[k2].processor # 0) => k1 = k2

\* C35: COMPLETED is terminal in command_store: once the store records
\* status COMPLETED for a command id, no later submit or consume step
\* changes that entry's status, result or error.
C35_CompletedIsTerminal ==
  [][\A id \in DOMAIN command_store :
       command_store[id].status.value = "completed" =>
         /\ command_store'[id].status = command_store[id].status
         /\ command_store'[id].result = command_store[id].result
         /\ command_store'[id].error = command_store[id].error]_vars

\* the settle calls made on the message of receipt r
SettleCallsOn(r) == { k \in DOMAIN settlements : settlements[k].receipt = r }

\* C36: every Service Bus message received is settled exactly once per
\* receipt: exactly one of complete_message, dead_letter_message and
\* abandon_message is called on it in every execution of
\* _process_service_bus_message, also when completing the message or
\* sending the response fails.
C36_SettledExactlyOnce ==
  listening.pc = "gather" =>
    \A i \in DOMAIN listening.tasks :
      listening.tasks[i].pc = "done" =>
        Cardinality(SettleCallsOn(listening.tasks[i].receipt)) = 1

\* C39: once stop() has been called on a listening agent, the loop is left
\* after the receive and the batch in flight have finished and the call
\* returns; no batch is received after that.
C39_LoopStopsAndReturns ==
  StoppedWhileListening =>
    /\ listening.pc # "raised"
    /\ \A k \in DOMAIN receives : ~receives[k].after_stop

\* C38: in receive_events the events of a batch go to the callback one at
\* a time in batch order; an event is checkpointed only after its callback
\* returned without raising; and a callback failure on one event does not
\* keep the later events of the batch from being processed.
C38_BatchInOrder ==
  /\ \A k \in DOMAIN callbacks :
       /\ k \in DOMAIN rx_batch
       /\ callbacks[k].index = k
       /\ callbacks[k].event = rx_batch[k]
       /\ callbacks[k].outcome = "running" => (k = Len(callbacks) /\ rx.pc = "callback")
  /\ \A c \in DOMAIN checkpoints :
       /\ callbacks[checkpoints[c].index].outcome = "returned"
       /\ checkpoints[c].event = callbacks[checkpoints[c].index].event
       /\ checkpoints[c].callbacks_made = checkpoints[c].index
       /\ \A c2 \in DOMAIN checkpoints :
            checkpoints[c2].index = checkpoints[c].index => c2 = c
  /\ rx.pc = "done" => Len(callbacks) = Len(rx_batch)

\* a batch of three events is over: the first callback raised, the second
\* event was checkpointed and the third went to the callback as well
C38_Witness ==
  /\ rx.pc = "done"
  /\ Len(rx_batch) = 3
  /\ callbacks[1].outcome = "raised"
  /\ callbacks[2].outcome = "returned"
  /\ callbacks[3].outcome = "returned"
  /\ \E c \in DOMAIN checkpoints : checkpoints[c].index = 2 /\ checkpoints[c].ok
  /\ \A c \in DOMAIN checkpoints : checkpoints[c].index # 1

\* C40: shutdown of the API services always cleans up: after
\* shutdown_event has run the Event Hub adapter has been closed, also after
\* the background pipeline / consumers were started; and a second start
\* request never starts a second consume loop.
C40_ShutdownClosesAdapter ==
  /\ api_state \in {"shutdown", "shutdown_raised"} => api_adapter = "closed"
  /\ Len(api_loops) <= 1

====
